---- MODULE Spec2Model ----
(***************************************************************************)
(* Waterguard Linkbox integration: EntityCache, StateMachine and the       *)
(* polling coordinator (coordinator.py), the hub client's status reads     *)
(* (hub.py) and the notification manager's alarm bookkeeping               *)
(* (notifications.py).                                                     *)
(*                                                                         *)
(* Encodings.  A Python value that may be None is a sequence: <<>> is      *)
(* None and <<v>> is the value v.  Analog readings (water alarm, leak,     *)
(* wireless values) are in tenths (1.0 is 10, 2.5 V is 25); multi-state    *)
(* codes (valve count, valve status) are plain integers. Durations and     *)
(* intervals are in milliseconds.  The timestamp of a reading is the       *)
(* number of the refresh cycle that took it; the clock that the wireless   *)
(* poll interval is measured against is the variable now.                  *)
(***************************************************************************)
EXTENDS Integers, Sequences, FiniteSets, TLC

VARIABLES
    cache,                        \* EntityCache._cache: key -> OrderedDict, as a sequence of [ts, value]
    max_entries,                  \* EntityCache._max_entries
    state_machine,                \* StateMachine: [alarm_state, valve_state, last_alarm_timestamp,
                                  \*                last_valve_change_timestamp]
    data,                         \* DataUpdateCoordinator.data: <<>> or <<snapshot>>
    scan_interval,                \* coordinator._scan_interval (ms)
    fast_poll_interval,           \* coordinator._fast_poll_interval (ms)
    update_interval,              \* DataUpdateCoordinator.update_interval (ms)
    alarm_active,                 \* coordinator._alarm_active
    last_wireless_data,           \* coordinator._last_wireless_data
    previous_connected_valves,    \* coordinator._previous_connected_valves
    notified_disconnected_valves, \* coordinator._notified_disconnected_valves
    last_update_seconds,          \* coordinator._last_update_seconds: <<>> or <<ms>>
    poll_wireless,                \* coordinator._poll_wireless
    last_wireless_poll,           \* coordinator._last_wireless_poll: <<>> or <<clock value>>
    update_count,                 \* coordinator._update_count
    notifications_enabled,        \* coordinator._notification_manager is not None
    active_alarms,                \* NotificationManager._active_alarms: alarm type -> [value, sensor]
    options,                      \* config_entry.options: [scan_interval, fast_poll_interval,
                                  \*   poll_wireless, wireless_poll_interval, enable_notifications],
                                  \*   intervals in seconds
    wireless_poll_interval,       \* coordinator._wireless_poll_interval (ms)
    now,                          \* the clock, datetime.now() (ms)
    wireless_discovery_complete,  \* coordinator._wireless_discovery_complete
    hub,                          \* the hub client's wireless attributes: [discovered, last_wireless_data,
                                  \*   last_wireless_check, wireless_attempt_count]
    wire,                         \* the UDP exchange on hub.local_port: [inflight, waiting, sends]
    discovered_wireless_sensors,  \* coordinator._discovered_wireless_sensors: <<>> while the
                                  \*   attribute is not set, else <<map>>
    threads,                      \* the calls two threads have running on the EntityCache and
                                  \*   the StateMachine, and the owner of each RLock
    arrivals,                     \* history: the add_reading calls made through AddReading, in call order
    last                          \* history: the last operation, its inputs and what it returned

vars == <<cache, max_entries, state_machine, data, scan_interval,
          fast_poll_interval, update_interval, alarm_active, last_wireless_data,
          previous_connected_valves, notified_disconnected_valves,
          last_update_seconds, poll_wireless, last_wireless_poll, update_count,
          notifications_enabled, active_alarms, options, wireless_poll_interval,
          now, wireless_discovery_complete, hub, wire,
          discovered_wireless_sensors, threads, arrivals, last>>

None == <<>>
Some(v) == <<v>>
Val(x) == x[1]
EmptyDict == [k \in {} |-> None]

Max2(a, b) == IF a >= b THEN a ELSE b
Min2(a, b) == IF a <= b THEN a ELSE b
Abs(a) == IF a >= 0 THEN a ELSE 0 - a

(***************************************************************************)
(* EntityCache                                                             *)
(***************************************************************************)
DefaultMaxEntries == 10

\* the while loop of add_reading: popitem(last=False) until at or under the limit
RECURSIVE Evict(_, _)
Evict(entries, limit) ==
    IF Len(entries) > limit THEN Evict(Tail(entries), limit) ELSE entries

\* self._cache[entity_key][timestamp] = value on an OrderedDict: a timestamp
\* already present keeps its position and gets the new value, a new one is
\* appended at the end
PutEntry(entries, value, timestamp) ==
    IF \E i \in DOMAIN entries : entries[i].ts = timestamp
    THEN [i \in DOMAIN entries |->
            IF entries[i].ts = timestamp
            THEN [ts |-> timestamp, value |-> value]
            ELSE entries[i]]
    ELSE Append(entries, [ts |-> timestamp, value |-> value])

add_reading(c, limit, entity_key, value, timestamp) ==
    LET cur == IF entity_key \in DOMAIN c THEN c[entity_key] ELSE <<>>
        new == Evict(PutEntry(cur, value, timestamp), limit)
    IN [k \in DOMAIN c \cup {entity_key} |-> IF k = entity_key THEN new ELSE c[k]]

\* returns <<value, timestamp>>; popitem(last=True) followed by re-insertion
\* leaves the OrderedDict as it was
get_latest_reading(c, entity_key) ==
    IF entity_key \notin DOMAIN c \/ c[entity_key] = <<>>
    THEN <<None, None>>
    ELSE LET e == c[entity_key][Len(c[entity_key])]
         IN <<e.value, Some(e.ts)>>

\* the cache after get_latest_reading: the entry removed by
\* popitem(last=True) is stored again under its timestamp
AfterLatestReading(c, entity_key) ==
    IF entity_key \notin DOMAIN c \/ c[entity_key] = <<>>
    THEN c
    ELSE LET entries == c[entity_key]
             e == entries[Len(entries)]
             popped == SubSeq(entries, 1, Len(entries) - 1)
         IN [c EXCEPT ![entity_key] = PutEntry(popped, e.value, e.ts)]

get_all_readings(c, entity_key) ==
    IF entity_key \notin DOMAIN c THEN <<>> ELSE c[entity_key]

(***************************************************************************)
(* StateMachine                                                            *)
(***************************************************************************)
\* StateMachine.__init__
NewStateMachine ==
    [alarm_state |-> "normal", valve_state |-> "unknown",
     last_alarm_timestamp |-> None, last_valve_change_timestamp |-> None]

\* variant: an active alarm state is never left
update_alarm_state_Latched(sm, is_active, timestamp) ==
    LET new_state == IF is_active \/ sm.alarm_state = "active" THEN "active" ELSE "normal"
    IN IF new_state # sm.alarm_state
       THEN <<[sm EXCEPT !.alarm_state = new_state,
                         !.last_alarm_timestamp = Some(timestamp)], TRUE>>
       ELSE <<sm, FALSE>>

\* both return <<state machine after the call, returned flag>>
update_alarm_state(sm, is_active, timestamp) ==
    LET new_state == IF is_active THEN "active" ELSE "normal"
    IN IF new_state # sm.alarm_state
       THEN <<[sm EXCEPT !.alarm_state = new_state,
                         !.last_alarm_timestamp = Some(timestamp)], TRUE>>
       ELSE <<sm, FALSE>>

\* variant: only code 4 counts as disconnected
update_valve_state_Only4(sm, valve_status, timestamp) ==
    LET new_state ==
            IF valve_status = Some(3) THEN "open"
            ELSE IF valve_status = Some(2) THEN "closed"
            ELSE IF valve_status = Some(4) THEN "disconnected"
            ELSE "unknown"
    IN IF new_state # sm.valve_state
       THEN <<[sm EXCEPT !.valve_state = new_state,
                         !.last_valve_change_timestamp = Some(timestamp)], TRUE>>
       ELSE <<sm, FALSE>>

update_valve_state(sm, valve_status, timestamp) ==
    LET new_state ==
            IF valve_status = Some(3) THEN "open"
            ELSE IF valve_status = Some(2) THEN "closed"
            ELSE IF valve_status \in {Some(4), Some(1087)} THEN "disconnected"
            ELSE "unknown"
    IN IF new_state # sm.valve_state
       THEN <<[sm EXCEPT !.valve_state = new_state,
                         !.last_valve_change_timestamp = Some(timestamp)], TRUE>>
       ELSE <<sm, FALSE>>

\* variant: the alarm state is not looked at
should_force_valve_sync_AnyAlarm(sm) ==
    sm.valve_state \in {"unknown", "disconnected"}

should_force_valve_sync(sm) ==
    sm.alarm_state = "normal" /\ sm.valve_state \in {"unknown", "disconnected"}

\* no call running on the cache or the state machine, both locks free
NoThreads ==
    [cache_lock |-> <<>>, state_lock |-> <<>>,
     call |-> [t \in {"cycle", "query"} |-> <<>>],
     calls |-> 0]

\* nothing sent yet on hub.local_port, no socket open
NewWire ==
    [inflight |-> {}, waiting |-> [c \in {"refresh", "control"} |-> <<>>],
     sends |-> 0, unreferenced |-> [c \in {"refresh", "control"} |-> 0]]

(***************************************************************************)
(* Hub client: status reads.  A reply record r holds what the hub would    *)
(* answer to each request after _parse_value (None: no response within     *)
(* the retries, or a response that does not decode).                       *)
(***************************************************************************)
\* WaterguardLinkboxHub.__init__ sets none of the wireless attributes; the
\* code tests them with hasattr
NewHub ==
    [discovered |-> None, last_wireless_data |-> None,
     last_wireless_check |-> None, wireless_attempt_count |-> None]

\* WATER_OBJECTS has no object of type 20, so all three objects are read
read_water_status(r) ==
    [alarm |-> r.alarm, leak1 |-> r.leak1, reset_leak |-> r.reset_leak]

\* the raw-code mapping inside read_valve_status
InterpretNumValves(raw_num_valves) ==
    IF raw_num_valves = 319 THEN 0
    ELSE IF raw_num_valves = 2 THEN 1
    ELSE IF raw_num_valves = 3 THEN 2
    ELSE raw_num_valves

read_valve_status(r) ==
    LET num_valves == IF r.num_valves # None
                      THEN InterpretNumValves(Val(r.num_valves))
                      ELSE 0
    IN [num_valves    |-> IF r.num_valves # None THEN Some(num_valves) ELSE None,
        control       |-> r.control,
        valve_status1 |-> IF num_valves >= 1 THEN r.valve_status1 ELSE None,
        valve_status2 |-> IF num_valves >= 2 THEN r.valve_status2 ELSE None]

\* one key per property the hub answered
read_device_info(r) == [k \in r.device |-> "available"]

get_all_status(r) ==
    [water    |-> read_water_status(r),
     valve    |-> read_valve_status(r),
     device   |-> read_device_info(r),
     wireless |-> r.wireless]

(***************************************************************************)
(* Coordinator helpers                                                     *)
(***************************************************************************)
AlarmThreshold == 10
LowBatteryVoltage == 25
DisconnectedCodes == {4, 1087}
WirelessKeys == {"leak1", "leak2", "temperature", "humidity", "battery_voltage"}

Spelling(key) ==
    CASE key = "leak1" -> <<"l", "e", "a", "k", "1">>
      [] key = "leak2" -> <<"l", "e", "a", "k", "2">>
      [] key = "temperature" -> <<"t", "e", "m", "p">>
      [] key = "humidity" -> <<"h", "u", "m">>
      [] key = "battery_voltage" -> <<"b", "a", "t", "t", "e", "r", "y", "_", "v">>
      [] key = "battery" -> <<"b", "a", "t", "t", "e", "r", "y">>
      [] OTHER -> <<>>

\* str.startswith on the spelled-out key
startswith(chars, prefix) ==
    /\ Len(chars) >= Len(prefix)
    /\ SubSeq(chars, 1, Len(prefix)) = prefix

\* dict.get(key) with the default None
Get(d, key) == IF key \in DOMAIN d THEN d[key] ELSE None

\* dict.update
DictUpdate(d, e) ==
    [k \in DOMAIN d \cup DOMAIN e |-> IF k \in DOMAIN e THEN e[k] ELSE d[k]]

\* the num_valves block of _async_update_data, applied to the valve section
\* that read_valve_status returned
RemapNumValves(valve) ==
    IF valve.num_valves = Some(2) THEN [valve EXCEPT !.num_valves = Some(1)]
    ELSE IF valve.num_valves = Some(3) THEN [valve EXCEPT !.num_valves = Some(2)]
    ELSE IF valve.num_valves = Some(319) THEN [valve EXCEPT !.num_valves = Some(0)]
    ELSE valve

_determine_alarm_state(d) ==
    LET alarm_value == Get(d.water, "alarm")
        leak_value == Get(d.water, "leak1")
        num_valves == Get(d.valve, "num_valves")
        valve1_status == Get(d.valve, "valve_status1")
        valve2_status == Get(d.valve, "valve_status2")
        battery_voltage == Get(d.wireless, "battery_voltage")
        wireless_leak ==
            \E k \in DOMAIN d.wireless :
                /\ startswith(Spelling(k), <<"l", "e", "a", "k">>)
                /\ d.wireless[k] # None
                /\ Val(d.wireless[k]) >= AlarmThreshold
        valve_system_disconnected == (num_valves = Some(319))
        valve1_disconnected ==
            valve1_status # None /\ Val(valve1_status) \in DisconnectedCodes
        valve2_disconnected ==
            /\ num_valves # None
            /\ Val(num_valves) # 0
            /\ Val(num_valves) >= 2
            /\ valve2_status # None
            /\ Val(valve2_status) \in DisconnectedCodes
    IN \/ (alarm_value # None /\ Val(alarm_value) >= AlarmThreshold)
       \/ (leak_value # None /\ Val(leak_value) >= AlarmThreshold)
       \/ wireless_leak
       \/ valve_system_disconnected
       \/ valve1_disconnected
       \/ valve2_disconnected
       \/ (battery_voltage # None /\ Val(battery_voltage) < LowBatteryVoltage)

\* add_reading for every key of one section whose value is not None
RECURSIVE CacheSection(_, _, _, _, _)
CacheSection(c, limit, section, d, timestamp) ==
    IF DOMAIN d = {} THEN c
    ELSE LET k == CHOOSE x \in DOMAIN d : TRUE
             rest == [x \in DOMAIN d \ {k} |-> d[x]]
             c1 == IF d[k] # None
                   THEN add_reading(c, limit, <<section, k>>, d[k], timestamp)
                   ELSE c
         IN CacheSection(c1, limit, section, rest, timestamp)

\* returns [data, cache, last_wireless_data]
_process_data_through_cache(d, c, limit, lwd, timestamp) ==
    LET c1 == CacheSection(c, limit, "water", d.water, timestamp)
        c2 == CacheSection(c1, limit, "valve", d.valve, timestamp)
        current_wireless == d.wireless
        cachedKeys == {k \in WirelessKeys :
                         get_latest_reading(c2, <<"wireless", k>>)[1] # None}
        cached_wireless ==
            [k \in cachedKeys |-> get_latest_reading(c2, <<"wireless", k>>)[1]]
    IN IF DOMAIN current_wireless # {}
       THEN [data |-> d,
             cache |-> CacheSection(c2, limit, "wireless", current_wireless, timestamp),
             last_wireless_data |-> DictUpdate(lwd, current_wireless)]
       ELSE [data |-> IF cachedKeys # {} THEN [d EXCEPT !.wireless = cached_wireless] ELSE d,
             cache |-> c2,
             last_wireless_data |-> lwd]

\* the valves that count as connected in _update_state_machine
ConnectedValves(valve) ==
    LET num_valves == Get(valve, "num_valves")
        ok(status) == status # None /\ Val(status) \notin DisconnectedCodes
    IN IF num_valves = None THEN {}
       ELSE {i \in {1} : Val(num_valves) >= 1 /\ ok(Get(valve, "valve_status1"))}
            \cup {i \in {2} : Val(num_valves) >= 2 /\ ok(Get(valve, "valve_status2"))}

\* variant: every valve that is not connected is put into the set
NotifiedAfter_AnyDisconnected(previous, notified, current) ==
    (notified \cup ({1, 2} \ current)) \ current

\* the debounce set after one cycle
NotifiedAfter(previous, notified, current) ==
    LET disconnected == IF previous # {} THEN previous \ current ELSE {}
    IN (notified \cup disconnected) \ current

MinIntervalMs == 1000
IntervalTolerance == 200

\* processing_guard: 1.5 times the last measured duration
ProcessingGuard(last_seconds) ==
    IF last_seconds = None THEN 0 ELSE (Val(last_seconds) * 3) \div 2

safe_seconds(is_alarm, scan, fast, last_seconds) ==
    Max2(Max2(IF is_alarm THEN fast ELSE scan, ProcessingGuard(last_seconds)),
         MinIntervalMs)

\* the pairs <<current, target>> exactly IntervalTolerance apart for which
\* abs(self.update_interval.total_seconds() - safe_seconds) > 0.2 is true in
\* binary floating point: a duration of 0.8 s gives the guard
\* 0.8 * 1.5 = 1.2000000000000002, and abs(1.0 - 1.2000000000000002) is
\* 0.20000000000000018; the other way round abs(1.2 - 1.0) is
\* 0.19999999999999996
ToleranceExceededAtLimit == {<<1000, 1200>>}

\* the interval _check_alarm_conditions leaves in update_interval
AppliedInterval(current, target) ==
    IF \/ current = 0
       \/ Abs(current - target) > IntervalTolerance
       \/ <<current, target>> \in ToleranceExceededAtLimit
    THEN target
    ELSE current

(***************************************************************************)
(* Hub client: wireless discovery and reads.  env holds what the hub       *)
(* answers in one operation to the read of each wireless object: analog    *)
(* (object type 0) and status (object type 13), per instance 11..15; None  *)
(* when the request gets no response within its retries or the response    *)
(* does not parse, else [value, general], value being what the parsing     *)
(* block leaves in `value` and general telling that the specialized        *)
(* parser failed and the general one produced it.  A request is recorded   *)
(* as [object_type, instance, retries, answered].                          *)
(***************************************************************************)
InstanceSeq == <<11, 12, 13, 14, 15>>

\* sensor_type_mapping; WIRELESS_SENSOR_OBJECTS has the same keys and instances
SensorKey(instance) ==
    CASE instance = 11 -> "leak1"
      [] instance = 12 -> "leak2"
      [] instance = 13 -> "temperature"
      [] instance = 14 -> "humidity"
      [] instance = 15 -> "battery_voltage"
      [] OTHER -> "unknown"

\* the expected ranges of sensor_type_mapping, <<min, max>> in tenths
DiscoveryRange(key) ==
    CASE key \in {"leak1", "leak2"} -> <<0, 15>>
      [] key = "temperature" -> <<-500, 1000>>
      [] key = "humidity" -> <<0, 1500>>
      [] OTHER -> <<0, 50>>

\* expanded_ranges, used when the specialized parser failed
ExpandedRange(key) ==
    IF key \in {"leak1", "leak2"} THEN <<0, 20>> ELSE DiscoveryRange(key)

InRange(v, range) == range[1] <= v /\ v <= range[2]

Request(object_type, instance, retries, reply) ==
    [object_type |-> object_type, instance |-> instance,
     retries |-> retries, answered |-> reply # None]

\* the reply of env to a read of (object_type, instance)
Reply(env, object_type, instance) ==
    IF instance \notin 11..15 THEN None
    ELSE IF object_type = 0 THEN env.analog[instance]
    ELSE env.status[instance]

\* first pass: the analog value is recorded when it lies in the range in force
AnalogAccepted(env, i) ==
    /\ env.analog[i] # None
    /\ InRange(Val(env.analog[i]).value,
               IF Val(env.analog[i]).general
               THEN ExpandedRange(SensorKey(i))
               ELSE DiscoveryRange(SensorKey(i)))

\* second pass: skipped for a key the first pass recorded; a status value of
\* 1.0 is only taken for the leak sensors
StatusAccepted(env, i) ==
    /\ ~AnalogAccepted(env, i)
    /\ env.status[i] # None
    /\ InRange(Val(env.status[i]).value, DiscoveryRange(SensorKey(i)))
    /\ \/ Val(env.status[i]).value # 10
       \/ startswith(Spelling(SensorKey(i)), <<"l", "e", "a", "k">>)

\* returns [sensors, requests]; the caller stores sensors in
\* _discovered_wireless_sensors, whatever it held before
discover_wireless_sensors(env) ==
    LET found == {i \in 11..15 : AnalogAccepted(env, i) \/ StatusAccepted(env, i)}
        entry(i) ==
            IF AnalogAccepted(env, i)
            THEN [value |-> Val(env.analog[i]).value, object_type |-> 0,
                  instance |-> i, data_type |-> "analog"]
            ELSE [value |-> Val(env.status[i]).value, object_type |-> 13,
                  instance |-> i, data_type |-> "status"]
        second(i) == ~AnalogAccepted(env, i)
        pass2 == SelectSeq(InstanceSeq, second)
    IN [sensors |-> [k \in {SensorKey(i) : i \in found} |->
                        entry(CHOOSE i \in found : SensorKey(i) = k)],
        requests |->
            [n \in 1..5 |-> Request(0, InstanceSeq[n], 2, env.analog[InstanceSeq[n]])]
            \o [n \in 1..Len(pass2) |-> Request(13, pass2[n], 2, env.status[pass2[n]])]]

\* the voltages, in hundredths, at which 85 * (v - 2.2) / 1.1 lies exactly
\* halfway between two integers and the binary64 evaluation of the code's
\* expression comes out below the half, so that round() goes down (2.31 V
\* gives 23, 2.53 V gives 40); at the other halfway points (2.75, 2.97 and
\* 3.19 V) it goes up
HalfwayRoundedDown == {231, 253}

\* variant: int() in place of round()
BatteryPercentage_Truncated(centivolts) ==
    IF centivolts >= 330 THEN 100
    ELSE IF centivolts <= 220 THEN 15
    ELSE 15 + (85 * (centivolts - 220)) \div 110

\* calculate_battery_percentage for a voltage given in hundredths of a volt:
\* round(15 + ((voltage - 2.2) / (3.3 - 2.2)) * 85)
BatteryPercentage(centivolts) ==
    IF centivolts >= 330 THEN 100
    ELSE IF centivolts <= 220 THEN 15
    ELSE IF centivolts \in HalfwayRoundedDown
    THEN 15 + (85 * (centivolts - 220)) \div 110
    ELSE 15 + (2 * 85 * (centivolts - 220) + 110) \div 220

\* the same for a voltage in tenths, the unit of the wireless readings
calculate_battery_percentage(voltage) == BatteryPercentage(10 * voltage)

\* wireless_data["battery"] is added when battery_voltage was read
WithBattery(wireless_data) ==
    IF "battery_voltage" \in DOMAIN wireless_data
    THEN DictUpdate(wireless_data,
            [k \in {"battery"} |->
                Some(calculate_battery_percentage(Val(wireless_data["battery_voltage"])))])
    ELSE wireless_data

\* returns [data, requests]
get_wireless_sensor_values(discovered, env) ==
    LET reply(k) == Reply(env, discovered[k].object_type, discovered[k].instance)
        known(i) == SensorKey(i) \in DOMAIN discovered
        order == SelectSeq(InstanceSeq, known)
        got == {k \in DOMAIN discovered : reply(k) # None}
    IN [data |-> WithBattery([k \in got |-> Some(Val(reply(k)).value)]),
        requests |-> [n \in 1..Len(order) |->
                        Request(discovered[SensorKey(order[n])].object_type, order[n], 3,
                                reply(SensorKey(order[n])))]]

\* wireless_candidates of _scan_for_wireless_objects
ScanCandidates ==
    <<11, 12, 13, 14, 15, 16, 17, 18, 19, 20, 100, 101, 102, 103, 104>>

\* sensor_names of _scan_for_wireless_objects
ScanSensorNames == <<"leak1", "leak2", "temperature", "humidity", "battery_voltage">>

\* variant: every candidate is read, the ones past the names under the last name
_scan_for_wireless_objects_AllCandidates(env) ==
    LET name(n) == ScanSensorNames[Min2(n, Len(ScanSensorNames))]
        got == {n \in 1..Len(ScanCandidates) : Reply(env, 0, ScanCandidates[n]) # None}
    IN [data |-> [k \in {name(n) : n \in got} |->
                    Some(Val(Reply(env, 0, ScanCandidates[CHOOSE n \in got : name(n) = k])).value)],
        requests |-> [n \in 1..Len(ScanCandidates) |->
                        Request(0, ScanCandidates[n], 2, Reply(env, 0, ScanCandidates[n]))]]

\* only the candidates that have a name (i < len(sensor_names)) are read
_scan_for_wireless_objects(env) ==
    LET used == Min2(Len(ScanCandidates), Len(ScanSensorNames))
        got == {n \in 1..used : Reply(env, 0, ScanCandidates[n]) # None}
    IN [data |-> [k \in {ScanSensorNames[n] : n \in got} |->
                    Some(Val(Reply(env, 0,
                        ScanCandidates[CHOOSE n \in got : ScanSensorNames[n] = k])).value)],
        requests |-> [n \in 1..used |->
                        Request(0, ScanCandidates[n], 2, Reply(env, 0, ScanCandidates[n]))]]

_read_wireless_from_hub(env) ==
    LET got == {i \in 11..15 : env.analog[i] # None}
        wireless_data ==
            [k \in {SensorKey(i) : i \in got} |->
                Some(Val(env.analog[CHOOSE i \in got : SensorKey(i) = k]).value)]
        requests == [n \in 1..5 |-> Request(0, InstanceSeq[n], 2, env.analog[InstanceSeq[n]])]
        scan == _scan_for_wireless_objects(env)
    IN IF got = {}
       THEN [data |-> scan.data, requests |-> requests \o scan.requests]
       ELSE [data |-> wireless_data, requests |-> requests]

\* not implemented in the code: always the empty dict, no request
_discover_wireless_devices == EmptyDict

CacheWindow == 300000

\* read_wireless_sensors at clock t: [data, hub, requests]
read_wireless_sensors(h, env, force_read, t) ==
    LET count == (IF h.wireless_attempt_count = None THEN 0
                  ELSE Val(h.wireless_attempt_count)) + 1
        counted == [h EXCEPT !.wireless_attempt_count = Some(count)]
        hasSensors == h.discovered # None /\ DOMAIN Val(h.discovered) # {}
        a1 == IF hasSensors
              THEN get_wireless_sensor_values(Val(h.discovered), env)
              ELSE [data |-> EmptyDict, requests |-> <<>>]
        try2 == DOMAIN a1.data = {} /\ (force_read \/ count % 6 = 0)
        a2 == IF try2 THEN _read_wireless_from_hub(env)
              ELSE [data |-> EmptyDict, requests |-> <<>>]
        d2 == DictUpdate(a1.data, a2.data)
        try3 == DOMAIN d2 = {} /\ (force_read \/ count % 12 = 0)
        d3 == IF try3 THEN DictUpdate(d2, _discover_wireless_devices) ELSE d2
        rescan == DOMAIN d3 = {} /\ force_read
        r4 == discover_wireless_sensors(env)
        d4 == IF rescan
              THEN [k \in DOMAIN r4.sensors |-> Some(r4.sensors[k].value)]
              ELSE d3
        wireless_data == WithBattery(d4)
    IN IF /\ h.last_wireless_data # None
          /\ h.last_wireless_check # None
          /\ ~force_read
          /\ t - Val(h.last_wireless_check) < CacheWindow
       THEN [data |-> Val(h.last_wireless_data), hub |-> h, requests |-> <<>>]
       ELSE IF ~force_read /\ count % 3 # 0
       THEN [data |-> IF h.last_wireless_data # None
                      THEN Val(h.last_wireless_data) ELSE EmptyDict,
             hub |-> counted, requests |-> <<>>]
       ELSE [data |-> wireless_data,
             hub |-> [counted EXCEPT
                        !.discovered = IF rescan THEN Some(r4.sensors) ELSE @,
                        !.last_wireless_data = Some(wireless_data),
                        !.last_wireless_check = Some(t)],
             requests |-> a1.requests \o a2.requests
                          \o (IF rescan THEN r4.requests ELSE <<>>)]

\* the requests of read_water_status, read_valve_status and read_device_info
\* under the replies r, in the order they are sent (all with the default
\* retries = 2); a device property is answered when r.device names it
\* variant: both status objects are requested whatever the count
StatusRequests_BothValves(r) ==
    <<Request(0, 7, 2, r.alarm), Request(0, 9, 2, r.leak1),
      Request(14, 10, 2, r.reset_leak),
      Request(13, 3, 2, r.num_valves), Request(14, 1, 2, r.control),
      Request(13, 5, 2, r.valve_status1), Request(13, 6, 2, r.valve_status2),
      Request(8, 77, 2, IF "name" \in r.device THEN Some(1) ELSE None),
      Request(8, 139, 2, IF "firmware_revision" \in r.device THEN Some(1) ELSE None),
      Request(8, 12, 2, IF "app_version" \in r.device THEN Some(1) ELSE None)>>

StatusRequests(r) ==
    LET num_valves == IF r.num_valves # None
                      THEN InterpretNumValves(Val(r.num_valves))
                      ELSE 0
    IN <<Request(0, 7, 2, r.alarm), Request(0, 9, 2, r.leak1),
         Request(14, 10, 2, r.reset_leak),
         Request(13, 3, 2, r.num_valves), Request(14, 1, 2, r.control)>>
       \o (IF num_valves >= 1 THEN <<Request(13, 5, 2, r.valve_status1)>> ELSE <<>>)
       \o (IF num_valves >= 2 THEN <<Request(13, 6, 2, r.valve_status2)>> ELSE <<>>)
       \o <<Request(8, 77, 2, IF "name" \in r.device THEN Some(1) ELSE None),
            Request(8, 139, 2, IF "firmware_revision" \in r.device THEN Some(1) ELSE None),
            Request(8, 12, 2, IF "app_version" \in r.device THEN Some(1) ELSE None)>>

(***************************************************************************)
(* Hub client: decoding of a response.  A response is the sequence of its  *)
(* bytes; a float is the record of the sign, exponent and fraction fields  *)
(* of its IEEE 754 binary32 encoding.                                      *)
(***************************************************************************)
\* data[a:b] of Python: 0-based, b exclusive, cut off at the end of the bytes
Slice(response, a, b) == SubSeq(response, a + 1, Min2(b, Len(response)))

\* b"\x81\x0a\x00\x17", b"\x01\x00\x30\x01", b"\x3e\x44", b"\x3e\x44\x3f"
WirelessHeader == <<129, 10, 0, 23>>
WaterApdu == <<1, 0, 48, 1>>
RealTag == <<62, 68>>
RealTagThenClosing == <<62, 68, 63>>

_is_wireless_sensor_response(response, object_type) ==
    /\ object_type = 0
    /\ Len(response) >= 22
    /\ Slice(response, 0, 4) = WirelessHeader
    /\ Slice(response, 16, 18) = RealTag

\* struct.unpack(">f", float_bytes)[0]
Float32(float_bytes) ==
    [sign |-> float_bytes[1] \div 128,
     exponent |-> (float_bytes[1] % 128) * 2 + float_bytes[2] \div 128,
     fraction |-> (float_bytes[2] % 128) * 65536 + float_bytes[3] * 256 + float_bytes[4]]

\* the floats 1.0 and 0.0
One == [sign |-> 0, exponent |-> 127, fraction |-> 0]
Zero == [sign |-> 0, exponent |-> 0, fraction |-> 0]

isnan(value) == value.exponent = 255 /\ value.fraction # 0
isinf(value) == value.exponent = 255 /\ value.fraction = 0

\* value == other for two floats that are not NaN: 0.0 equals -0.0
FloatEq(value, other) ==
    \/ value = other
    \/ /\ value.exponent = 0 /\ value.fraction = 0
       /\ other.exponent = 0 /\ other.fraction = 0

RECURSIVE Pow2(_)
Pow2(k) == IF k = 0 THEN 1 ELSE 2 * Pow2(k - 1)

\* twice the magnitude of a finite float is Significand * 2^-HalvesShift
Significand(value) ==
    IF value.exponent = 0 THEN value.fraction ELSE 8388608 + value.fraction

HalvesShift(value) == 149 - (IF value.exponent = 0 THEN 1 ELSE value.exponent)

\* 2 * |value| < n and 2 * |value| <= n, for an integer n in 0..511
MagnitudeBelowHalves(value, n) ==
    IF Significand(value) = 0 THEN n > 0
    ELSE IF HalvesShift(value) <= 0 THEN FALSE
    ELSE IF HalvesShift(value) >= 24 THEN n >= 1
    ELSE Significand(value) \div Pow2(HalvesShift(value)) < n

MagnitudeAtMostHalves(value, n) ==
    IF Significand(value) = 0 THEN TRUE
    ELSE IF HalvesShift(value) <= 0 THEN FALSE
    ELSE IF HalvesShift(value) >= 24 THEN n >= 1
    ELSE \/ Significand(value) \div Pow2(HalvesShift(value)) < n
         \/ /\ Significand(value) \div Pow2(HalvesShift(value)) = n
            /\ Significand(value) % Pow2(HalvesShift(value)) = 0

\* low <= value <= high for a finite float, the limits given in halves
FloatBetween(value, low_halves, high_halves) ==
    /\ IF value.sign = 0
       THEN low_halves <= 0 \/ ~MagnitudeBelowHalves(value, low_halves)
       ELSE low_halves <= 0 /\ MagnitudeAtMostHalves(value, -low_halves)
    /\ IF value.sign = 0
       THEN high_halves >= 0 /\ MagnitudeAtMostHalves(value, high_halves)
       ELSE high_halves >= 0 \/ ~MagnitudeBelowHalves(value, -high_halves)

\* returns None or <<float>>
_parse_wireless_sensor_response(response, sensor_key) ==
    IF /\ Len(response) = 23
       /\ Slice(response, 0, 4) = WirelessHeader
       /\ Slice(response, 4, 8) = WaterApdu
       /\ Slice(response, 16, 19) = RealTagThenClosing
    THEN IF response[19 + 1] = 128 THEN Some(One) ELSE Some(Zero)
    ELSE IF Len(response) < 22 THEN None
    ELSE IF Slice(response, 16, 18) # RealTag THEN None
    ELSE LET value == Float32(Slice(response, 18, 22))
         IN IF isnan(value) \/ isinf(value) THEN None
            ELSE IF sensor_key \in {"leak1", "leak2"}
            THEN IF FloatEq(value, One) THEN Some(One) ELSE Some(Zero)
            ELSE IF sensor_key = "temperature"
            THEN IF FloatBetween(value, -100, 200) THEN Some(value) ELSE None
            ELSE IF sensor_key = "humidity"
            THEN IF FloatBetween(value, 0, 300) THEN Some(value) ELSE None
            ELSE IF sensor_key = "battery_voltage"
            THEN IF FloatBetween(value, 3, 8) THEN Some(value) ELSE None
            ELSE Some(value)

\* bytes.find(byte): the 0-based index of the first occurrence, -1 when
\* there is none
Find(response, byte) ==
    IF \E i \in DOMAIN response : response[i] = byte
    THEN (CHOOSE i \in DOMAIN response :
            /\ response[i] = byte
            /\ \A j \in 1..(i - 1) : response[j] # byte) - 1
    ELSE -1

\* response[i] of Python, 0-based
Byte(response, i) == response[i + 1]

RECURSIVE Log2(_)
Log2(n) == IF n <= 1 THEN 0 ELSE 1 + Log2(n \div 2)

\* float(n) for an integer 0 <= n < 2^16
FloatOf(n) ==
    IF n = 0 THEN Zero
    ELSE [sign |-> 0, exponent |-> 127 + Log2(n),
          fraction |-> (n - Pow2(Log2(n))) * Pow2(23 - Log2(n))]

\* on the integer a multi-state object carries
_apply_multi_state_mapping(value, object_type) ==
    IF object_type = 13 THEN value
    ELSE IF object_type = 14
    THEN IF value = 319 THEN 1
         ELSE IF 0 <= value /\ value <= 10 THEN value
         ELSE 1
    ELSE value

\* expected_range is None or <<(min_val, max_val)>>, the limits in halves
_parse_wired_sensor_value(response, object_type, expected_range) ==
    LET enum_start == Find(response, 145)
        uint_start == Find(response, 33)
        bool_start == Find(response, 16)
        real_start == Find(response, 68)
    IN IF enum_start >= 0 /\ enum_start + 1 < Len(response)
       THEN Some(FloatOf(_apply_multi_state_mapping(
                Byte(response, enum_start + 1), object_type)))
       ELSE IF uint_start >= 0 /\ uint_start + 1 < Len(response)
       THEN LET single_byte_value == Byte(response, uint_start + 1)
                two_byte_value ==
                    IF uint_start + 3 <= Len(response)
                    THEN single_byte_value * 256 + Byte(response, uint_start + 2)
                    ELSE 0
            IN IF uint_start + 3 <= Len(response) /\ two_byte_value \in {319, 1087}
               THEN Some(FloatOf(_apply_multi_state_mapping(two_byte_value, object_type)))
               ELSE Some(FloatOf(_apply_multi_state_mapping(single_byte_value, object_type)))
       ELSE IF bool_start >= 0 /\ bool_start + 1 < Len(response)
       THEN Some(FloatOf(Byte(response, bool_start + 1)))
       ELSE IF real_start >= 0 /\ real_start + 5 <= Len(response)
       THEN LET value == Float32(Slice(response, real_start + 1, real_start + 5))
            IN IF isnan(value) \/ isinf(value) THEN None
               ELSE IF expected_range # None
               THEN IF FloatBetween(value, Val(expected_range)[1], Val(expected_range)[2])
                    THEN Some(value) ELSE None
               ELSE IF FloatBetween(value, -200, 20000) THEN Some(value) ELSE None
       ELSE None

\* bit 1 of byte 3: data[3] & 0x02
ErrorBit(response) == (Byte(response, 3) \div 2) % 2 = 1

\* sensor_key is None or <<key>>; recvfrom(1024) never delivers more than
\* 1024 bytes, so the truncation does not apply
_parse_value(response, object_type, expected_range, sensor_key) ==
    IF Len(response) < 4 THEN None
    ELSE IF ErrorBit(response) /\ Byte(response, 3) # 23 THEN None
    ELSE IF _is_wireless_sensor_response(response, object_type)
    THEN _parse_wireless_sensor_response(response,
             IF sensor_key = None THEN "unknown" ELSE Val(sensor_key))
    ELSE _parse_wired_sensor_value(response, object_type, expected_range)

(***************************************************************************)
(* Transport: _send_request.  outcomes[n] is what attempt n meets:         *)
(* "response" (recvfrom returns), "timeout" (socket.timeout) or "error"    *)
(* (any other exception, from creating the socket on).                     *)
(***************************************************************************)
\* the except clauses of the loop body: socket.timeout and Exception are both
\* caught and logged
Caught(outcome) == outcome \in {"timeout", "error"}

\* variant: range(retries) instead of range(retries + 1)
RECURSIVE _send_request_OneAttemptShort(_, _, _)
_send_request_OneAttemptShort(outcomes, retries, attempt) ==
    IF attempt >= retries
    THEN [response |-> None, attempts |-> attempt, raised |-> FALSE]
    ELSE IF outcomes[attempt + 1] = "response"
    THEN [response |-> Some(attempt + 1), attempts |-> attempt + 1, raised |-> FALSE]
    ELSE IF ~Caught(outcomes[attempt + 1])
    THEN [response |-> None, attempts |-> attempt + 1, raised |-> TRUE]
    ELSE _send_request_OneAttemptShort(outcomes, retries, attempt + 1)

\* the loop from `attempt` (0-based) on: [response, attempts, raised], the
\* response being named by the attempt that received it
RECURSIVE _send_request(_, _, _)
_send_request(outcomes, retries, attempt) ==
    IF attempt >= retries + 1
    THEN [response |-> None, attempts |-> attempt, raised |-> FALSE]
    ELSE IF outcomes[attempt + 1] = "response"
    THEN [response |-> Some(attempt + 1), attempts |-> attempt + 1, raised |-> FALSE]
    ELSE IF ~Caught(outcomes[attempt + 1])
    THEN [response |-> None, attempts |-> attempt + 1, raised |-> TRUE]
    ELSE _send_request(outcomes, retries, attempt + 1)

(***************************************************************************)
(* NotificationManager: the bookkeeping of active alarms.  Delivery is     *)
(* outside the model; sending is recorded as the alarm type appended to    *)
(* the list of notifications sent by the cycle.  State is [active, sent].  *)
(***************************************************************************)
\* variant: a changed alarm value is notified again
_trigger_alarm_NotifyOnChange(nm, alarm_type, value, sensor) ==
    IF alarm_type \notin DOMAIN nm.active
    THEN [active |-> [t \in DOMAIN nm.active \cup {alarm_type} |->
                        IF t = alarm_type
                        THEN [value |-> value, sensor |-> sensor]
                        ELSE nm.active[t]],
          sent |-> Append(nm.sent, alarm_type)]
    ELSE IF nm.active[alarm_type].value # value \/ nm.active[alarm_type].sensor # sensor
    THEN [active |-> [nm.active EXCEPT ![alarm_type] = [value |-> value, sensor |-> sensor]],
          sent |-> Append(nm.sent, alarm_type)]
    ELSE nm

_trigger_alarm(nm, alarm_type, value, sensor) ==
    IF alarm_type \notin DOMAIN nm.active
    THEN [active |-> [t \in DOMAIN nm.active \cup {alarm_type} |->
                        IF t = alarm_type
                        THEN [value |-> value, sensor |-> sensor]
                        ELSE nm.active[t]],
          sent |-> Append(nm.sent, alarm_type)]
    ELSE IF nm.active[alarm_type].value # value \/ nm.active[alarm_type].sensor # sensor
    THEN [nm EXCEPT !.active[alarm_type] = [value |-> value, sensor |-> sensor]]
    ELSE nm

_clear_alarm(nm, alarm_type) ==
    IF alarm_type \in DOMAIN nm.active
    THEN [nm EXCEPT !.active = [t \in DOMAIN nm.active \ {alarm_type} |-> nm.active[t]]]
    ELSE nm

\* trigger when the reading is present and at or above 1.0, clear otherwise
CheckThreshold(nm, alarm_type, reading, sensor) ==
    IF reading # None /\ Val(reading) >= AlarmThreshold
    THEN _trigger_alarm(nm, alarm_type, reading, sensor)
    ELSE _clear_alarm(nm, alarm_type)

CheckWirelessLeaks(nm, lwd) ==
    LET n1 == CheckThreshold(nm, "wireless_leak_1", Get(lwd, "leak1"), "wireless_leak_sensor_1")
    IN CheckThreshold(n1, "wireless_leak_2", Get(lwd, "leak2"), "wireless_leak_sensor_2")

_check_water_alarms(nm, water, lwd) ==
    LET n1 == CheckThreshold(nm, "water_alarm", Get(water, "alarm"), "system_alarm")
        n2 == CheckThreshold(n1, "water_leak", Get(water, "leak1"), "sensor_tape")
    IN CheckWirelessLeaks(n2, lwd)

\* the alarm value is the message naming the disconnected valves
_check_valve_alarms(nm, valve) ==
    LET disconnected_valves ==
            (IF Get(valve, "valve_status1") = Some(4) THEN <<"valve 1">> ELSE <<>>)
            \o (IF Get(valve, "valve_status2") = Some(4) THEN <<"valve 2">> ELSE <<>>)
    IN IF disconnected_valves # <<>>
       THEN _trigger_alarm(nm, "valve_alarm", disconnected_valves, "valve_system")
       ELSE _clear_alarm(nm, "valve_alarm")

_check_wireless_alarms(nm, lwd) ==
    LET battery_voltage == Get(lwd, "battery_voltage")
        n1 == IF battery_voltage # None /\ Val(battery_voltage) < LowBatteryVoltage
              THEN _trigger_alarm(nm, "low_battery", battery_voltage, "wireless_sensor_battery")
              ELSE _clear_alarm(nm, "low_battery")
    IN CheckWirelessLeaks(n1, lwd)

\* data always has its four sections here; a section is falsy when empty
_check_connection_status(nm, d) ==
    IF /\ DOMAIN d.water = {}
       /\ DOMAIN d.valve = {}
       /\ DOMAIN d.device = {}
       /\ DOMAIN d.wireless = {}
    THEN _trigger_alarm(nm, "connection_lost", <<"No data received">>, "hub_connection")
    ELSE _clear_alarm(nm, "connection_lost")

async_check_alarms(active, d, lwd) ==
    LET n0 == [active |-> active, sent |-> <<>>]
        n1 == _check_water_alarms(n0, d.water, lwd)
        n2 == _check_valve_alarms(n1, d.valve)
        n3 == _check_wireless_alarms(n2, lwd)
    IN _check_connection_status(n3, d)

(***************************************************************************)
(* Exception messages, spelled out so that lower() and "in" are computed   *)
(***************************************************************************)
Lower(ch) ==
    CASE ch = "T" -> "t" [] ch = "I" -> "i" [] ch = "M" -> "m" [] ch = "E" -> "e"
      [] ch = "O" -> "o" [] ch = "U" -> "u" [] ch = "C" -> "c" [] ch = "N" -> "n"
      [] OTHER -> ch

LowerStr(chars) == [i \in DOMAIN chars |-> Lower(chars[i])]

Contains(chars, needle) ==
    \E i \in 1..(Len(chars) - Len(needle) + 1) :
        SubSeq(chars, i, i + Len(needle) - 1) = needle

\* variant: the message is matched without lower()
IsTransient_CaseSensitive(message) ==
    \/ Contains(message, <<"t", "i", "m", "e", "o", "u", "t">>)
    \/ Contains(message, <<"c", "o", "n", "n", "e", "c", "t", "i", "o", "n">>)

IsTransient(message) ==
    \/ Contains(LowerStr(message), <<"t", "i", "m", "e", "o", "u", "t">>)
    \/ Contains(LowerStr(message), <<"c", "o", "n", "n", "e", "c", "t", "i", "o", "n">>)

(***************************************************************************)
(* Bounds and the inputs one step may draw                                 *)
(***************************************************************************)
MaxCycles == 2
MaxAdds == 3
MaxTimestamp == 3
MaxLimit == 2

DEFAULT_SCAN_INTERVAL == 2
DEFAULT_FAST_POLL_INTERVAL == 1

DeviceProperties == {"name", "firmware_revision", "app_version"}

\* no request is answered; the hub client's own wireless cache is empty
SilentReplies ==
    [alarm |-> None, leak1 |-> None, reset_leak |-> None,
     num_valves |-> None, control |-> None,
     valve_status1 |-> None, valve_status2 |-> None,
     device |-> {}, wireless |-> EmptyDict]

\* a healthy hub: dry, one valve (raw count 2), open, wireless sensors asleep
BaseReplies ==
    [alarm |-> Some(0), leak1 |-> Some(0), reset_leak |-> Some(1),
     num_valves |-> Some(2), control |-> Some(3),
     valve_status1 |-> Some(3), valve_status2 |-> None,
     device |-> DeviceProperties, wireless |-> EmptyDict]

ValveStatuses == {None, Some(3), Some(4), Some(1087)}

WaterReplies ==
    {[BaseReplies EXCEPT !.alarm = Some(10)],
     [BaseReplies EXCEPT !.leak1 = Some(10)],
     [BaseReplies EXCEPT !.alarm = None, !.leak1 = None]}

\* the status of valve k is only requested when the interpreted count is >= k
ValveReplies ==
    {[BaseReplies EXCEPT !.valve_status1 = s1] : s1 \in ValveStatuses}
    \cup {[BaseReplies EXCEPT !.num_valves = Some(3), !.valve_status1 = s1, !.valve_status2 = s2] :
            s1 \in {Some(3), Some(4)}, s2 \in ValveStatuses}
    \cup {[BaseReplies EXCEPT !.num_valves = n, !.valve_status1 = None] : n \in {None, Some(319)}}
    \cup {[BaseReplies EXCEPT !.num_valves = Some(1)]}

WirelessReads ==
    {[k \in {"leak1"} |-> Some(10)],
     [k \in {"leak2"} |-> Some(0)],
     [k \in {"battery_voltage", "battery"} |->
        IF k = "battery_voltage" THEN Some(24) ELSE Some(30)]}

WirelessReplies == {[BaseReplies EXCEPT !.wireless = w] : w \in WirelessReads}

HubReplies == {SilentReplies, BaseReplies} \cup WaterReplies \cup ValveReplies \cup WirelessReplies

Durations == {200, 3000}

\* durations whose guard is 50 ms and exactly 200 ms above the fast interval
NearDurations == {700, 800}

MsgTimeout == <<"T", "i", "m", "e", "o", "u", "t">>
MsgConnection == <<"n", "o", " ", "c", "o", "n", "n", "e", "c", "t", "i", "o", "n">>
MsgTimedOut == <<"t", "i", "m", "e", "d", " ", "o", "u", "t">>
Messages == {MsgTimeout, MsgConnection, MsgTimedOut}

DEFAULT_WIRELESS_POLL_INTERVAL == 30

\* the time between the end of one operation and the start of the next cycle
WaitLong == 30000
WaitShort == 2000

\* kind: what awaiting hub.get_all_status gives ("status": the dict the hub
\* client builds from r; "nodata": None or {}; "malformed": not a dict;
\* "raise": an exception with message msg).  dur: the measured duration.
\* wait: the time since the previous operation ended.  sync: the replies to
\* the forced valve re-read, None when that call raises (then with message
\* msg).
BaseInput ==
    [kind |-> "status", r |-> BaseReplies, dur |-> 200,
     wait |-> WaitLong, sync |-> Some(BaseReplies), msg |-> <<>>]

CycleInputs ==
    {[BaseInput EXCEPT !.r = r, !.sync = Some(r)] : r \in HubReplies}
    \cup {[BaseInput EXCEPT !.dur = d] : d \in Durations}
    \cup {[BaseInput EXCEPT !.wait = WaitShort]}
    \cup {[BaseInput EXCEPT !.r = [BaseReplies EXCEPT !.alarm = Some(10)],
                            !.sync = Some([BaseReplies EXCEPT !.alarm = Some(10)]),
                            !.dur = d] : d \in NearDurations}
    \cup {[BaseInput EXCEPT !.r = [BaseReplies EXCEPT !.valve_status1 = None],
                            !.sync = Some([BaseReplies EXCEPT !.valve_status1 = s])] :
            s \in {Some(3), Some(4)}}
    \cup {[BaseInput EXCEPT !.r = r, !.sync = None, !.msg = m] :
            r \in {SilentReplies, [BaseReplies EXCEPT !.valve_status1 = None]},
            m \in {MsgTimeout, MsgTimedOut}}
    \cup {[BaseInput EXCEPT !.kind = k] : k \in {"nodata", "malformed"}}
    \cup {[BaseInput EXCEPT !.kind = "raise", !.msg = m] : m \in Messages}

DefaultOptions ==
    [scan_interval |-> DEFAULT_SCAN_INTERVAL,
     fast_poll_interval |-> DEFAULT_FAST_POLL_INTERVAL,
     poll_wireless |-> TRUE,
     wireless_poll_interval |-> DEFAULT_WIRELESS_POLL_INTERVAL,
     enable_notifications |-> TRUE]

\* the options the host may hold when the coordinator is constructed
InitOptions ==
    {DefaultOptions,
     [DefaultOptions EXCEPT !.scan_interval = 500, !.fast_poll_interval = 20,
                            !.poll_wireless = FALSE, !.enable_notifications = FALSE]}

\* the options the host may store at runtime
OptionChoices ==
    {DefaultOptions,
     [DefaultOptions EXCEPT !.scan_interval = 5, !.fast_poll_interval = 3,
                            !.poll_wireless = FALSE, !.wireless_poll_interval = 60]}

(***************************************************************************)
(* One refresh cycle: _async_update_data, with the host's handling of its  *)
(* outcome (a returned snapshot becomes data, a failure leaves data)       *)
(***************************************************************************)
\* variant: the alarm does not force the read
ForceWireless_IntervalOnly(in) ==
    /\ poll_wireless
    /\ \/ last_wireless_poll = None
       \/ (now + in.wait) - Val(last_wireless_poll) >= wireless_poll_interval

\* force_wireless, decided at the start of the cycle
ForceWireless(in) ==
    /\ poll_wireless
    /\ \/ alarm_active
       \/ last_wireless_poll = None
       \/ (now + in.wait) - Val(last_wireless_poll) >= wireless_poll_interval

\* variant: an empty wireless read is passed on as it is
Prepared_NoFallback(d, lwd) ==
    [d EXCEPT !.valve = RemapNumValves(@)]

\* lines 272-288: wireless fallback and the num_valves block
Prepared(d, lwd) ==
    [d EXCEPT !.wireless = IF DOMAIN d.wireless = {} /\ DOMAIN lwd # {} THEN lwd ELSE @,
              !.valve = RemapNumValves(@)]

\* whether this cycle's forced valve re-read is made and raises
SyncRaises(d, in, timestamp) ==
    LET a == update_alarm_state(state_machine, _determine_alarm_state(d), timestamp)
        v == update_valve_state(a[1], Get(d.valve, "valve_status1"), timestamp)
    IN should_force_valve_sync(v[1]) /\ in.sync = None

\* _update_state_machine with _force_valve_sync (which logs and swallows
\* what the re-read raises): [state_machine, resync, previous, notified],
\* resync being the number of forced valve re-reads issued
UpdatedStateMachine(d, in, timestamp) ==
    LET a == update_alarm_state(state_machine, _determine_alarm_state(d), timestamp)
        current == ConnectedValves(d.valve)
        v == update_valve_state(a[1], Get(d.valve, "valve_status1"), timestamp)
        synced == IF should_force_valve_sync(v[1]) /\ in.sync # None
                  THEN update_valve_state(v[1],
                           read_valve_status(Val(in.sync)).valve_status1, timestamp)[1]
                  ELSE v[1]
    IN [state_machine |-> synced,
        resync |-> IF should_force_valve_sync(v[1]) THEN 1 ELSE 0,
        previous |-> current,
        notified |-> NotifiedAfter(previous_connected_valves,
                                   notified_disconnected_valves, current)]

\* the except branch: the snapshot returned for a transient error
HandlerSnapshot(snap, lwd) ==
    IF DOMAIN lwd # {} /\ "wireless" \notin DOMAIN snap
    THEN [k \in DOMAIN snap \cup {"wireless"} |-> IF k = "wireless" THEN lwd ELSE snap[k]]
    ELSE snap

CycleRaises(in) ==
    /\ in.kind = "raise"
    /\ IF data # None /\ IsTransient(in.msg)
       THEN /\ data' = Some(HandlerSnapshot(Val(data), last_wireless_data))
            /\ last' = [op |-> "cycle", in |-> in, result |-> "degraded",
                        raised |-> "fetch", sent |-> <<>>,
                        force_wireless |-> ForceWireless(in), resync |-> 0]
       ELSE /\ data' = data
            /\ last' = [op |-> "cycle", in |-> in, result |-> "failed",
                        raised |-> "fetch", sent |-> <<>>,
                        force_wireless |-> ForceWireless(in), resync |-> 0]
    /\ UNCHANGED <<cache, state_machine, update_interval, alarm_active,
                   last_wireless_data, previous_connected_valves,
                   notified_disconnected_valves, last_update_seconds,
                   last_wireless_poll, active_alarms, threads>>

\* variant: UpdateFailed is raised without looking for a cached snapshot
CycleNoData_AlwaysFails(in) ==
    /\ in.kind \in {"nodata", "malformed"}
    /\ last_wireless_poll' = IF ForceWireless(in)
                             THEN Some(now + in.wait + in.dur)
                             ELSE last_wireless_poll
    /\ last_update_seconds' = Some(in.dur)
    /\ data' = data
    /\ last' = [op |-> "cycle", in |-> in, result |-> "failed",
                raised |-> "none", sent |-> <<>>,
                force_wireless |-> ForceWireless(in), resync |-> 0]
    /\ UNCHANGED <<cache, state_machine, update_interval, alarm_active,
                   last_wireless_data, previous_connected_valves,
                   notified_disconnected_valves, active_alarms, threads>>

\* variant: the poll interval falls back to the scan interval when the hub
\* returned nothing usable
CycleNoData_ResetsInterval(in) ==
    /\ in.kind \in {"nodata", "malformed"}
    /\ last_wireless_poll' = IF ForceWireless(in)
                             THEN Some(now + in.wait + in.dur)
                             ELSE last_wireless_poll
    /\ last_update_seconds' = Some(in.dur)
    /\ data' = data
    /\ update_interval' = scan_interval
    /\ last' = [op |-> "cycle", in |-> in,
                result |-> IF data # None THEN "degraded" ELSE "failed",
                raised |-> "none", sent |-> <<>>,
                force_wireless |-> ForceWireless(in), resync |-> 0]
    /\ UNCHANGED <<cache, state_machine, alarm_active,
                   last_wireless_data, previous_connected_valves,
                   notified_disconnected_valves, active_alarms>>

\* hub returned nothing usable: the cached snapshot, or UpdateFailed, which the
\* except branch re-raises because there is no snapshot
CycleNoData(in) ==
    /\ in.kind \in {"nodata", "malformed"}
    /\ last_wireless_poll' = IF ForceWireless(in)
                             THEN Some(now + in.wait + in.dur)
                             ELSE last_wireless_poll
    /\ last_update_seconds' = Some(in.dur)
    /\ data' = data
    /\ last' = [op |-> "cycle", in |-> in,
                result |-> IF data # None THEN "degraded" ELSE "failed",
                raised |-> "none", sent |-> <<>>,
                force_wireless |-> ForceWireless(in), resync |-> 0]
    /\ UNCHANGED <<cache, state_machine, update_interval, alarm_active,
                   last_wireless_data, previous_connected_valves,
                   notified_disconnected_valves, active_alarms, threads>>

CycleStatus(in) ==
    /\ in.kind = "status"
    /\ LET timestamp == update_count + 1
           p == _process_data_through_cache(
                    Prepared(get_all_status(in.r), last_wireless_data),
                    cache, max_entries, last_wireless_data, timestamp)
           sm == UpdatedStateMachine(p.data, in, timestamp)
           is_alarm == _determine_alarm_state(p.data)
           nm == IF notifications_enabled
                 THEN async_check_alarms(active_alarms, p.data, p.last_wireless_data)
                 ELSE [active |-> active_alarms, sent |-> <<>>]
       IN /\ last_wireless_poll' = IF ForceWireless(in)
                                   THEN Some(now + in.wait + in.dur)
                                   ELSE last_wireless_poll
          /\ last_update_seconds' = Some(in.dur)
          /\ cache' = p.cache
          /\ last_wireless_data' = p.last_wireless_data
          /\ state_machine' = sm.state_machine
          /\ previous_connected_valves' = sm.previous
          /\ notified_disconnected_valves' = sm.notified
          /\ alarm_active' = is_alarm
          /\ update_interval' =
                AppliedInterval(update_interval,
                    safe_seconds(is_alarm, scan_interval, fast_poll_interval, Some(in.dur)))
          /\ active_alarms' = nm.active
          /\ data' = Some(p.data)
          /\ last' = [op |-> "cycle", in |-> in, result |-> "ok",
                      raised |-> IF SyncRaises(p.data, in, timestamp) THEN "sync" ELSE "none",
                      sent |-> nm.sent,
                      force_wireless |-> ForceWireless(in), resync |-> sm.resync]

_async_update_data ==
    /\ update_count < MaxCycles
    /\ \E in \in CycleInputs :
          \/ CycleRaises(in)
          \/ CycleNoData(in)
          \/ CycleStatus(in)
    /\ update_count' = update_count + 1
    /\ now' = now + last'.in.wait + last'.in.dur
    /\ UNCHANGED <<max_entries, scan_interval, fast_poll_interval, poll_wireless,
                   notifications_enabled, options, wireless_poll_interval,
                   wireless_discovery_complete, hub, arrivals, wire,
                   discovered_wireless_sensors, threads>>

\* the host stores new options and calls async_update_options
async_update_options ==
    /\ update_count < MaxCycles
    /\ \E o \in OptionChoices :
          /\ options' = o
          /\ scan_interval' = Max2(1, Min2(300, o.scan_interval)) * 1000
          /\ fast_poll_interval' = Max2(1, Min2(10, o.fast_poll_interval)) * 1000
          /\ last' = [op |-> "options", in |-> o, result |-> "ok",
                      raised |-> "none", sent |-> <<>>,
                      force_wireless |-> FALSE, resync |-> 0]
    /\ update_interval' = IF alarm_active THEN fast_poll_interval' ELSE scan_interval'
    /\ UNCHANGED <<cache, max_entries, state_machine, data, alarm_active,
                   last_wireless_data, previous_connected_valves,
                   notified_disconnected_valves, last_update_seconds, poll_wireless,
                   last_wireless_poll, update_count, notifications_enabled,
                   active_alarms, wireless_poll_interval, now,
                   wireless_discovery_complete, hub, arrivals, wire,
                   discovered_wireless_sensors, threads>>

\* WaterguardDataUpdateCoordinator.__init__, then async_setup_notifications
Init ==
    /\ cache = EmptyDict
    /\ max_entries = DefaultMaxEntries
    /\ state_machine = NewStateMachine
    /\ data = None
    /\ options \in InitOptions
    /\ scan_interval = options.scan_interval * 1000
    /\ fast_poll_interval = options.fast_poll_interval * 1000
    /\ update_interval = scan_interval
    /\ alarm_active = FALSE
    /\ last_wireless_data = EmptyDict
    /\ previous_connected_valves = {}
    /\ notified_disconnected_valves = {}
    /\ last_update_seconds = None
    /\ poll_wireless = options.poll_wireless
    /\ wireless_poll_interval = options.wireless_poll_interval * 1000
    /\ last_wireless_poll = None
    /\ update_count = 0
    /\ wire = NewWire
    /\ discovered_wireless_sensors = None
    /\ threads = NoThreads
    /\ notifications_enabled = options.enable_notifications
    /\ active_alarms = EmptyDict
    /\ now = 0
    /\ wireless_discovery_complete = FALSE
    /\ hub = NewHub
    /\ arrivals = <<>>
    /\ last = [op |-> "init", in |-> <<>>, result |-> "ok", raised |-> "none", sent |-> <<>>,
               force_wireless |-> FALSE, resync |-> 0]

Next == _async_update_data \/ async_update_options

Spec == Init /\ [][Next]_vars

(***************************************************************************)
(* EntityCache driven through its own operations                           *)
(***************************************************************************)
CacheKeys == {<<"water", "alarm">>, <<"valve", "num_valves">>}
CacheValues == {Some(0), Some(10)}

\* the readings handed to add_reading for one key, in call order
ArrivalsOf(key) ==
    LET pick(a) == a.key = key
        own == SelectSeq(arrivals, pick)
    IN [i \in DOMAIN own |-> [ts |-> own[i].ts, value |-> own[i].value]]

AddReading ==
    /\ Len(arrivals) < MaxAdds
    /\ \E key \in CacheKeys, value \in CacheValues, timestamp \in 1..MaxTimestamp :
          /\ cache' = add_reading(cache, max_entries, key, value, timestamp)
          /\ arrivals' = Append(arrivals, [key |-> key, ts |-> timestamp, value |-> value])
          /\ last' = [op |-> "add_reading", in |-> <<key, value, timestamp>>, result |-> <<>>]
    /\ UNCHANGED <<max_entries, state_machine, data, scan_interval, fast_poll_interval,
                   update_interval, alarm_active, last_wireless_data,
                   previous_connected_valves, notified_disconnected_valves,
                   last_update_seconds, poll_wireless, last_wireless_poll, update_count,
                   notifications_enabled, active_alarms, options,
                   wireless_poll_interval, now, wireless_discovery_complete, hub, wire,
                   discovered_wireless_sensors, threads>>

GetLatestReading ==
    /\ \E key \in CacheKeys :
          /\ last' = [op |-> "get_latest_reading", in |-> <<key>>,
                      result |-> get_latest_reading(cache, key)]
          /\ cache' = AfterLatestReading(cache, key)
    /\ UNCHANGED <<arrivals, max_entries, state_machine, data, scan_interval,
                   fast_poll_interval, update_interval, alarm_active, last_wireless_data,
                   previous_connected_valves, notified_disconnected_valves,
                   last_update_seconds, poll_wireless, last_wireless_poll, update_count,
                   notifications_enabled, active_alarms, options,
                   wireless_poll_interval, now, wireless_discovery_complete, hub, wire,
                   discovered_wireless_sensors, threads>>

GetAllReadings ==
    /\ \E key \in CacheKeys :
          last' = [op |-> "get_all_readings", in |-> <<key>>,
                   result |-> get_all_readings(cache, key)]
    /\ UNCHANGED <<cache, arrivals, max_entries, state_machine, data, scan_interval,
                   fast_poll_interval, update_interval, alarm_active, last_wireless_data,
                   previous_connected_valves, notified_disconnected_valves,
                   last_update_seconds, poll_wireless, last_wireless_poll, update_count,
                   notifications_enabled, active_alarms, options,
                   wireless_poll_interval, now, wireless_discovery_complete, hub, wire,
                   discovered_wireless_sensors, threads>>

\* EntityCache.__init__ with a configured maximum
InitCache ==
    /\ cache = EmptyDict
    /\ max_entries \in 0..MaxLimit
    /\ arrivals = <<>>
    /\ last = [op |-> "init", in |-> <<>>, result |-> <<>>]
    /\ state_machine = NewStateMachine
    /\ data = None
    /\ options = DefaultOptions
    /\ scan_interval = options.scan_interval * 1000
    /\ fast_poll_interval = options.fast_poll_interval * 1000
    /\ update_interval = scan_interval
    /\ alarm_active = FALSE
    /\ last_wireless_data = EmptyDict
    /\ previous_connected_valves = {}
    /\ notified_disconnected_valves = {}
    /\ last_update_seconds = None
    /\ poll_wireless = options.poll_wireless
    /\ wireless_poll_interval = options.wireless_poll_interval * 1000
    /\ last_wireless_poll = None
    /\ update_count = 0
    /\ wire = NewWire
    /\ discovered_wireless_sensors = None
    /\ threads = NoThreads
    /\ notifications_enabled = FALSE
    /\ active_alarms = EmptyDict
    /\ now = 0
    /\ wireless_discovery_complete = FALSE
    /\ hub = NewHub

NextCache == AddReading \/ GetLatestReading \/ GetAllReadings

SpecCache == InitCache /\ [][NextCache]_vars

(***************************************************************************)
(* StateMachine driven through its own operations                          *)
(***************************************************************************)
MaxCalls == 4
ValveCodes == {None, Some(1), Some(2), Some(3), Some(4), Some(1087), Some(319)}

\* update_count counts the calls here and serves as their timestamp;
\* last.alarm_in and last.valve_in are the argument of the previous call of
\* each function (None before its first call)
UpdateAlarmState ==
    /\ update_count < MaxCalls
    /\ \E is_active \in BOOLEAN :
          LET u == update_alarm_state(state_machine, is_active, update_count + 1)
          IN /\ state_machine' = u[1]
             /\ last' = [op |-> "update_alarm_state", in |-> is_active, result |-> u[2],
                         alarm_in |-> Some(is_active), valve_in |-> last.valve_in]
    /\ update_count' = update_count + 1
    /\ UNCHANGED <<cache, arrivals, max_entries, data, scan_interval,
                   fast_poll_interval, update_interval, alarm_active, last_wireless_data,
                   previous_connected_valves, notified_disconnected_valves,
                   last_update_seconds, poll_wireless, last_wireless_poll,
                   notifications_enabled, active_alarms, options,
                   wireless_poll_interval, now, wireless_discovery_complete, hub, wire,
                   discovered_wireless_sensors, threads>>

UpdateValveState ==
    /\ update_count < MaxCalls
    /\ \E valve_status \in ValveCodes :
          LET u == update_valve_state(state_machine, valve_status, update_count + 1)
          IN /\ state_machine' = u[1]
             /\ last' = [op |-> "update_valve_state", in |-> valve_status, result |-> u[2],
                         alarm_in |-> last.alarm_in, valve_in |-> Some(valve_status)]
    /\ update_count' = update_count + 1
    /\ UNCHANGED <<cache, arrivals, max_entries, data, scan_interval,
                   fast_poll_interval, update_interval, alarm_active, last_wireless_data,
                   previous_connected_valves, notified_disconnected_valves,
                   last_update_seconds, poll_wireless, last_wireless_poll,
                   notifications_enabled, active_alarms, options,
                   wireless_poll_interval, now, wireless_discovery_complete, hub, wire,
                   discovered_wireless_sensors, threads>>

InitStateMachine ==
    /\ state_machine = NewStateMachine
    /\ last = [op |-> "init", in |-> <<>>, result |-> FALSE,
               alarm_in |-> None, valve_in |-> None]
    /\ cache = EmptyDict
    /\ max_entries = DefaultMaxEntries
    /\ arrivals = <<>>
    /\ data = None
    /\ options = DefaultOptions
    /\ scan_interval = options.scan_interval * 1000
    /\ fast_poll_interval = options.fast_poll_interval * 1000
    /\ update_interval = scan_interval
    /\ alarm_active = FALSE
    /\ last_wireless_data = EmptyDict
    /\ previous_connected_valves = {}
    /\ notified_disconnected_valves = {}
    /\ last_update_seconds = None
    /\ poll_wireless = options.poll_wireless
    /\ wireless_poll_interval = options.wireless_poll_interval * 1000
    /\ last_wireless_poll = None
    /\ update_count = 0
    /\ wire = NewWire
    /\ discovered_wireless_sensors = None
    /\ threads = NoThreads
    /\ notifications_enabled = FALSE
    /\ active_alarms = EmptyDict
    /\ now = 0
    /\ wireless_discovery_complete = FALSE
    /\ hub = NewHub

NextStateMachine == UpdateAlarmState \/ UpdateValveState

SpecStateMachine == InitStateMachine /\ [][NextStateMachine]_vars

(***************************************************************************)
(* Hub specification: setup discovery, then get_all_status calls, over the *)
(* hub client's wireless attributes.  update_count counts the calls.       *)
(***************************************************************************)
MaxHubCalls == 3

SilentEnv == [analog |-> [i \in 11..15 |-> None], status |-> [i \in 11..15 |-> None]]

Parsed(v) == Some([value |-> v, general |-> FALSE])

\* what the wireless objects answer during one operation
Envs ==
    {SilentEnv,
     [SilentEnv EXCEPT !.analog[11] = Parsed(10)],
     [SilentEnv EXCEPT !.status[11] = Parsed(0)],
     [SilentEnv EXCEPT !.analog = [i \in 11..15 |->
        Parsed(CASE i = 13 -> 215 [] i = 14 -> 400 [] i = 15 -> 24 [] OTHER -> 0)]],
     [SilentEnv EXCEPT !.status[13] = Parsed(10), !.status[12] = Parsed(10)],
     [SilentEnv EXCEPT !.analog[11] = Some([value |-> 18, general |-> TRUE]),
                       !.analog[12] = Parsed(18),
                       !.status[11] = Parsed(10), !.status[12] = Parsed(0)]}

\* what the three setup attempts meet
DiscoveryInputs ==
    {<<e, e, e>> : e \in Envs}
    \cup {<<SilentEnv, SilentEnv, [SilentEnv EXCEPT !.analog[11] = Parsed(10)]>>}

HubInputs ==
    {[r |-> BaseReplies, env |-> e, force |-> f, wait |-> WaitLong] :
        e \in Envs, f \in BOOLEAN}
    \cup {[r |-> r, env |-> SilentEnv, force |-> TRUE, wait |-> WaitLong] :
            r \in {SilentReplies,
                   [BaseReplies EXCEPT !.num_valves = Some(3), !.valve_status2 = Some(3)]}}
    \cup {[r |-> BaseReplies, env |-> SilentEnv, force |-> FALSE, wait |-> CacheWindow]}
    \cup {[r |-> [BaseReplies EXCEPT !.num_valves = n, !.valve_status2 = Some(3)],
           env |-> SilentEnv, force |-> FALSE, wait |-> WaitLong] :
            n \in {None, Some(319), Some(1)}}

\* the calls made after setup meet a hub that is silent or one that answers
LaterInputs ==
    {<<SilentEnv, SilentEnv, SilentEnv>>,
     <<SilentEnv, SilentEnv, [SilentEnv EXCEPT !.analog[11] = Parsed(10)]>>}

\* the scan that raises in a call: 0 when none does
RaisingScans == 0..3

\* variant: the loop goes on after a scan that found sensors
DiscoveryAttempts_NoBreak(in, raises, hub_map) ==
    LET a == [k \in 1..3 |-> discover_wireless_sensors(in[k])]
        raised == raises # 0
        scans == IF raised THEN raises ELSE 3
        returned == IF raised THEN raises - 1 ELSE 3
    IN [scans |-> scans,
        raised |-> raised,
        sensors |-> IF raised THEN EmptyDict ELSE a[3].sensors,
        requests |-> (IF returned >= 1 THEN a[1].requests ELSE <<>>)
                     \o (IF returned >= 2 THEN a[2].requests ELSE <<>>)
                     \o (IF returned >= 3 THEN a[3].requests ELSE <<>>),
        hub_map |-> IF returned = 0 THEN hub_map ELSE Some(a[returned].sensors)]

\* the try block of async_discover_wireless_sensors: the scans in[1], in[2],
\* in[3] are what the three attempts meet, raises is the scan that raises
\* (it only does when the loop gets to it) and hub_map is the map the hub
\* client holds before.  scans: the calls of hub.discover_wireless_sensors;
\* sensors: the map the coordinator records; requests: the requests of the
\* scans that returned; hub_map: the map the hub client holds afterwards.
DiscoveryAttempts(in, raises, hub_map) ==
    LET a == [k \in 1..3 |-> discover_wireless_sensors(in[k])]
        stop == IF DOMAIN a[1].sensors # {} THEN 1
                ELSE IF DOMAIN a[2].sensors # {} THEN 2 ELSE 3
        raised == raises # 0 /\ raises <= stop
        scans == IF raised THEN raises ELSE stop
        returned == IF raised THEN raises - 1 ELSE stop
    IN [scans |-> scans,
        raised |-> raised,
        sensors |-> IF raised THEN EmptyDict ELSE a[stop].sensors,
        requests |-> (IF returned >= 1 THEN a[1].requests ELSE <<>>)
                     \o (IF returned >= 2 THEN a[2].requests ELSE <<>>)
                     \o (IF returned >= 3 THEN a[3].requests ELSE <<>>),
        hub_map |-> IF returned = 0 THEN hub_map ELSE Some(a[returned].sensors)]

\* coordinator.async_discover_wireless_sensors: async_setup_entry calls it
\* once before the first refresh; a call made after that returns what is
\* recorded
async_discover_wireless_sensors ==
    /\ IF wireless_discovery_complete
       THEN /\ \E in \in LaterInputs :
                 last' = [op |-> "discover", in |-> in, force |-> FALSE,
                          result |-> IF discovered_wireless_sensors = None
                                     THEN EmptyDict
                                     ELSE Val(discovered_wireless_sensors),
                          requests |-> <<>>, scans |-> 0, raised |-> FALSE]
            /\ UNCHANGED <<hub, last_wireless_data, discovered_wireless_sensors>>
       ELSE \E in \in DiscoveryInputs, raises \in RaisingScans :
              LET d == DiscoveryAttempts(in, raises, hub.discovered)
              IN /\ hub' = [hub EXCEPT !.discovered = d.hub_map]
                 /\ last_wireless_data' =
                      IF DOMAIN d.sensors # {}
                      THEN [k \in DOMAIN d.sensors |-> Some(d.sensors[k].value)]
                      ELSE last_wireless_data
                 /\ discovered_wireless_sensors' = Some(d.sensors)
                 /\ last' = [op |-> "discover", in |-> in, force |-> FALSE,
                             result |-> d.sensors, requests |-> d.requests,
                             scans |-> d.scans, raised |-> d.raised]
    /\ wireless_discovery_complete' = TRUE
    /\ UNCHANGED <<cache, max_entries, state_machine, data, scan_interval,
                   fast_poll_interval, update_interval, alarm_active,
                   previous_connected_valves, notified_disconnected_valves,
                   last_update_seconds, poll_wireless, last_wireless_poll,
                   update_count, notifications_enabled, active_alarms, options,
                   wireless_poll_interval, now, arrivals, wire, threads>>

\* hub.get_all_status(force_wireless_read), as one refresh cycle calls it
HubGetAllStatus ==
    /\ wireless_discovery_complete
    /\ update_count < MaxHubCalls
    /\ \E in \in HubInputs :
        LET t == now + in.wait
            w == read_wireless_sensors(hub, in.env, in.force, t)
        IN /\ hub' = w.hub
           /\ now' = t
           /\ last' = [op |-> "get_all_status", in |-> in, force |-> in.force,
                       result |-> get_all_status([in.r EXCEPT !.wireless = w.data]),
                       requests |-> StatusRequests(in.r) \o w.requests]
    /\ update_count' = update_count + 1
    /\ UNCHANGED <<cache, max_entries, state_machine, data, scan_interval,
                   fast_poll_interval, update_interval, alarm_active,
                   last_wireless_data, previous_connected_valves,
                   notified_disconnected_valves, last_update_seconds, poll_wireless,
                   last_wireless_poll, notifications_enabled, active_alarms, options,
                   wireless_poll_interval, wireless_discovery_complete, arrivals, wire,
                   discovered_wireless_sensors, threads>>

InitHub ==
    /\ hub = NewHub
    /\ wireless_discovery_complete = FALSE
    /\ now = 0
    /\ last = [op |-> "init", in |-> <<>>, force |-> FALSE, result |-> EmptyDict,
               requests |-> <<>>]
    /\ cache = EmptyDict
    /\ max_entries = DefaultMaxEntries
    /\ state_machine = NewStateMachine
    /\ arrivals = <<>>
    /\ data = None
    /\ options = DefaultOptions
    /\ scan_interval = options.scan_interval * 1000
    /\ fast_poll_interval = options.fast_poll_interval * 1000
    /\ update_interval = scan_interval
    /\ alarm_active = FALSE
    /\ last_wireless_data = EmptyDict
    /\ previous_connected_valves = {}
    /\ notified_disconnected_valves = {}
    /\ last_update_seconds = None
    /\ poll_wireless = options.poll_wireless
    /\ wireless_poll_interval = options.wireless_poll_interval * 1000
    /\ last_wireless_poll = None
    /\ update_count = 0
    /\ wire = NewWire
    /\ discovered_wireless_sensors = None
    /\ threads = NoThreads
    /\ notifications_enabled = FALSE
    /\ active_alarms = EmptyDict

NextHub == async_discover_wireless_sensors \/ HubGetAllStatus

SpecHub == InitHub /\ [][NextHub]_vars

(***************************************************************************)
(* Transport specification: single _send_request calls                     *)
(***************************************************************************)
MaxRetries == 3

Outcomes == {"response", "timeout", "error"}

SendRequest ==
    /\ \E retries \in 0..MaxRetries :
        \E outcomes \in [1..(retries + 1) -> Outcomes] :
            last' = [op |-> "send", retries |-> retries, outcomes |-> outcomes,
                     result |-> _send_request(outcomes, retries, 0)]
    /\ UNCHANGED <<cache, max_entries, state_machine, data, scan_interval,
                   fast_poll_interval, update_interval, alarm_active,
                   last_wireless_data, previous_connected_valves,
                   notified_disconnected_valves, last_update_seconds, poll_wireless,
                   last_wireless_poll, update_count, notifications_enabled,
                   active_alarms, options, wireless_poll_interval, now,
                   wireless_discovery_complete, hub, arrivals, wire,
                   discovered_wireless_sensors, threads>>

InitTransport ==
    /\ last = [op |-> "init", retries |-> 0, outcomes |-> <<>>,
               result |-> [response |-> None, attempts |-> 0, raised |-> FALSE]]
    /\ hub = NewHub
    /\ wireless_discovery_complete = FALSE
    /\ now = 0
    /\ cache = EmptyDict
    /\ max_entries = DefaultMaxEntries
    /\ state_machine = NewStateMachine
    /\ arrivals = <<>>
    /\ data = None
    /\ options = DefaultOptions
    /\ scan_interval = options.scan_interval * 1000
    /\ fast_poll_interval = options.fast_poll_interval * 1000
    /\ update_interval = scan_interval
    /\ alarm_active = FALSE
    /\ last_wireless_data = EmptyDict
    /\ previous_connected_valves = {}
    /\ notified_disconnected_valves = {}
    /\ last_update_seconds = None
    /\ poll_wireless = options.poll_wireless
    /\ wireless_poll_interval = options.wireless_poll_interval * 1000
    /\ last_wireless_poll = None
    /\ update_count = 0
    /\ wire = NewWire
    /\ discovered_wireless_sensors = None
    /\ threads = NoThreads
    /\ notifications_enabled = FALSE
    /\ active_alarms = EmptyDict

NextTransport == SendRequest

SpecTransport == InitTransport /\ [][NextTransport]_vars

(***************************************************************************)
(* Pure functions of the hub client, applied to inputs drawn from bounded  *)
(* sets; only the history variable changes                                 *)
(***************************************************************************)
\* every variable but the history at its value after construction
Constructed ==
    /\ hub = NewHub
    /\ wire = NewWire
    /\ discovered_wireless_sensors = None
    /\ threads = NoThreads
    /\ wireless_discovery_complete = FALSE
    /\ now = 0
    /\ cache = EmptyDict
    /\ max_entries = DefaultMaxEntries
    /\ state_machine = NewStateMachine
    /\ arrivals = <<>>
    /\ data = None
    /\ options = DefaultOptions
    /\ scan_interval = options.scan_interval * 1000
    /\ fast_poll_interval = options.fast_poll_interval * 1000
    /\ update_interval = scan_interval
    /\ alarm_active = FALSE
    /\ last_wireless_data = EmptyDict
    /\ previous_connected_valves = {}
    /\ notified_disconnected_valves = {}
    /\ last_update_seconds = None
    /\ poll_wireless = options.poll_wireless
    /\ wireless_poll_interval = options.wireless_poll_interval * 1000
    /\ last_wireless_poll = None
    /\ update_count = 0
    /\ notifications_enabled = FALSE
    /\ active_alarms = EmptyDict

CoordinatorUntouched ==
    UNCHANGED <<cache, max_entries, state_machine, data, scan_interval,
                fast_poll_interval, update_interval, alarm_active,
                last_wireless_data, previous_connected_valves,
                notified_disconnected_valves, last_update_seconds, poll_wireless,
                last_wireless_poll, update_count, notifications_enabled,
                active_alarms, options, wireless_poll_interval, now,
                wireless_discovery_complete, hub, arrivals,
                discovered_wireless_sensors, threads>>

MinCentivolts == 200
MaxCentivolts == 350

BatteryVoltages == MinCentivolts..MaxCentivolts

CalculateBatteryPercentage ==
    /\ \E centivolts \in BatteryVoltages :
          last' = [op |-> "battery", voltage |-> centivolts,
                   result |-> BatteryPercentage(centivolts)]
    /\ CoordinatorUntouched
    /\ UNCHANGED wire

InitBattery ==
    /\ Constructed
    /\ last = [op |-> "init", voltage |-> 0, result |-> 0]

NextBattery == CalculateBatteryPercentage

SpecBattery == InitBattery /\ [][NextBattery]_vars

\* the float_bytes of 1.0, 0.0, -0.0, 0.37, the float next above 1.0, 1.00390625,
\* the float next below 1.0, 0.5, 1.5, 2.0, 3.0, 21.5, -60.0, 160.0, NaN and
\* infinity
FloatSamples ==
    {<<63, 128, 0, 0>>, <<0, 0, 0, 0>>, <<128, 0, 0, 0>>, <<62, 189, 112, 164>>,
     <<63, 128, 0, 1>>, <<63, 128, 128, 0>>, <<63, 127, 255, 255>>, <<63, 0, 0, 0>>,
     <<63, 192, 0, 0>>, <<64, 0, 0, 0>>, <<64, 64, 0, 0>>, <<65, 172, 0, 0>>,
     <<194, 112, 0, 0>>, <<67, 32, 0, 0>>, <<127, 192, 0, 0>>, <<127, 128, 0, 0>>}

\* a ReadProperty acknowledgment of an analog input with a real present
\* value: BVLC header, NPDU and APDU header, service choice, object
\* identifier, property identifier, opening tag and real tag, the float,
\* and what follows it
Frame(header, apdu, instance, float_bytes, tail) ==
    header \o apdu \o <<12, 12, 0, 0, 0, instance, 25, 85>> \o RealTag \o float_bytes \o tail

Frames ==
    {Frame(WirelessHeader, apdu, 11, f, tail) :
        apdu \in {WaterApdu, <<1, 0, 48, 2>>},
        f \in FloatSamples,
        tail \in {<<>>, <<63>>, <<63, 0>>}}
    \cup {Frame(<<129, 11, 0, 23>>, WaterApdu, 11, f, <<63>>) : f \in FloatSamples}
    \cup {SubSeq(Frame(WirelessHeader, WaterApdu, 11, f, <<>>), 1, 21) : f \in FloatSamples}

ParserKeys == WirelessKeys \cup {"unknown"}

\* the call of _parse_wireless_sensor_response that last holds, with what
\* _is_wireless_sensor_response says about the same response
ParseWirelessSensorResponse ==
    /\ last.op = "call_parse"
    /\ last' = [last EXCEPT
                  !.op = "parse",
                  !.wireless = _is_wireless_sensor_response(last.response, 0),
                  !.result = _parse_wireless_sensor_response(last.response,
                                                             last.sensor_key)]
    /\ CoordinatorUntouched
    /\ UNCHANGED wire

\* an acknowledgment of a multi-state, binary or analog object: the value
\* follows the property identifier in an opening and a closing tag.  length
\* is byte 3, the low byte of the length field, which the sender may get
\* wrong
WiredFrame(length, instance, value) ==
    <<129, 10, 0, length>> \o WaterApdu \o <<12, 12, 3, 64, 0, instance, 25, 85, 62>>
    \o value \o <<63>>

\* enumerated 3, unsigned 4, unsigned 319, and the real 1.0
WiredValues == {<<145, 3>>, <<33, 4>>, <<33, 1, 63>>, <<68, 63, 128, 0, 0>>}

\* the true length of the frames above is 20 to 23; 18 and 22 have bit 1
\* set, 20 has not, 23 is 0x17
LengthBytes == {18, 20, 22, 23}

ValueFrames ==
    Frames
    \cup {WiredFrame(length, 5, value) : length \in LengthBytes, value \in WiredValues}
    \cup {<<129, 10, 0>>}

\* the object types of the objects read: analog input, multi-state input,
\* multi-state output
ObjectTypes == {0, 13, 14}

\* (0, 1) for the water objects, or none
ExpectedRanges == {None, Some(<<0, 2>>)}

\* the call of _parse_value that last holds
ParseValue ==
    /\ last.op = "call_parse_value"
    /\ last' = [last EXCEPT
                  !.op = "parse_value",
                  !.wireless = _is_wireless_sensor_response(last.response,
                                                            last.object_type),
                  !.result = _parse_value(last.response, last.object_type,
                                          last.expected_range, last.sensor_key)]
    /\ CoordinatorUntouched
    /\ UNCHANGED wire

\* a response has arrived and is about to be decoded
InitParser ==
    /\ Constructed
    /\ \/ \E response \in Frames, sensor_key \in ParserKeys :
             last = [op |-> "call_parse", response |-> response,
                     sensor_key |-> sensor_key, wireless |-> FALSE, result |-> None]
       \/ \E response \in ValueFrames, object_type \in ObjectTypes,
             expected_range \in ExpectedRanges,
             sensor_key \in {None, Some("leak1"), Some("temperature")} :
             last = [op |-> "call_parse_value", response |-> response,
                     sensor_key |-> sensor_key, object_type |-> object_type,
                     expected_range |-> expected_range,
                     wireless |-> FALSE, result |-> None]

NextParser == ParseWirelessSensorResponse \/ ParseValue

SpecParser == InitParser /\ [][NextParser]_vars

(***************************************************************************)
(* The UDP exchange on hub.local_port.  Every attempt of _send_request     *)
(* binds a fresh socket to the same local port, sends the packet and       *)
(* returns the first datagram recvfrom delivers.  The coordinator's        *)
(* refresh and a valve command of the switch run in different executor     *)
(* threads with no lock between them.  A datagram addressed to the port    *)
(* is handed to a socket bound to it at the time it arrives, whichever     *)
(* request that socket belongs to; with two sockets bound the receiving    *)
(* one is either of them.                                                  *)
(*                                                                         *)
(* wire.waiting[c] holds the attempt caller c has running, bound telling   *)
(* whether the attempt holds a socket in sock; wire.unreferenced[c] counts *)
(* the sockets _create_socket opened for c that no variable refers to any  *)
(* more and that nothing has closed yet; wire.sends counts the attempts    *)
(* started.                                                                *)
(***************************************************************************)
MaxSends == 4

\* retries: int = 2
DefaultRetries == 2

WireCallers == {"refresh", "control"}

\* the objects a refresh reads one after the other, and the object a valve
\* command writes
WireObjects ==
    [c \in WireCallers |->
        IF c = "refresh" THEN {"alarm", "valve_status1"} ELSE {"control"}]

\* sock = self._create_socket(); sock.sendto(packet, ...): the hub answers
\* the packet or not, and its answer travels back to local_port
SendTo(w, c, object, attempt, answered) ==
    [w EXCEPT !.waiting[c] = <<[object |-> object, attempt |-> attempt,
                                bound |-> TRUE]>>,
              !.sends = @ + 1,
              !.inflight = @ \cup IF answered
                                  THEN {[for |-> object, n |-> w.sends + 1]}
                                  ELSE {}]

\* how the try block of an attempt goes up to recvfrom: the packet leaves
\* and the hub answers it or not, bind raises inside _create_socket, or
\* sendto raises
AttemptCourses == {"answered", "unanswered", "bind_error", "send_error"}

\* the try block raises before recvfrom.  When sendto raises, sock holds the
\* socket and the finally clause closes it.  When bind raises, the socket
\* _create_socket has opened is never assigned to sock, "if sock" is false
\* and nothing closes it: it stays open until the interpreter reclaims it
Raises(w, c, object, attempt, course) ==
    [w EXCEPT !.waiting[c] = <<[object |-> object, attempt |-> attempt,
                                bound |-> FALSE]>>,
              !.sends = @ + 1,
              !.unreferenced[c] = IF course = "bind_error" THEN @ + 1 ELSE @]

\* for attempt in range(retries + 1): one pass through the try block
StartAttempt(w, c, object, attempt, course) ==
    IF course \in {"answered", "unanswered"}
    THEN SendTo(w, c, object, attempt, course = "answered")
    ELSE Raises(w, c, object, attempt, course)

\* the sockets opened for caller c that are open now
OpenSockets(w, c) ==
    w.unreferenced[c]
    + IF w.waiting[c] # <<>> /\ Val(w.waiting[c]).bound THEN 1 ELSE 0

\* _send_request is entered: first attempt
WireSendRequest(c) ==
    /\ wire.waiting[c] = <<>>
    /\ wire.sends < MaxSends
    /\ \E object \in WireObjects[c], course \in AttemptCourses :
          /\ wire' = StartAttempt(wire, c, object, 0, course)
          /\ last' = [op |-> "send", caller |-> c, requested |-> object,
                      reply_for |-> None]
    /\ CoordinatorUntouched

\* data, addr = sock.recvfrom(1024); return data; the finally clause closes
\* the socket
WireReceive(c) ==
    /\ wire.waiting[c] # <<>>
    /\ Val(wire.waiting[c]).bound
    /\ \E m \in wire.inflight :
          /\ wire' = [wire EXCEPT !.inflight = @ \ {m}, !.waiting[c] = <<>>]
          /\ last' = [op |-> "return", caller |-> c,
                      requested |-> Val(wire.waiting[c]).object,
                      reply_for |-> Some(m.for)]
    /\ CoordinatorUntouched

\* except socket.timeout, except Exception: the attempt ends without data,
\* the finally clause closes the socket sock holds, and the next attempt
\* starts; after the last attempt the request returns None
WireTimeout(c) ==
    /\ wire.waiting[c] # <<>>
    /\ LET r == Val(wire.waiting[c])
       IN IF r.attempt < DefaultRetries
          THEN /\ wire.sends < MaxSends
               /\ \E course \in AttemptCourses :
                     wire' = StartAttempt(wire, c, r.object, r.attempt + 1, course)
               /\ last' = [op |-> "retry", caller |-> c, requested |-> r.object,
                           reply_for |-> None]
          ELSE /\ wire' = [wire EXCEPT !.waiting[c] = <<>>]
               /\ last' = [op |-> "return", caller |-> c, requested |-> r.object,
                           reply_for |-> None]
    /\ CoordinatorUntouched

\* the interpreter reclaims a socket nothing refers to, which closes it
WireReclaim(c) ==
    /\ wire.unreferenced[c] > 0
    /\ wire' = [wire EXCEPT !.unreferenced[c] = @ - 1]
    /\ last' = [last EXCEPT !.op = "reclaim", !.caller = c, !.reply_for = None]
    /\ CoordinatorUntouched

\* a datagram that arrives while no socket is bound to local_port is lost
WireUnreachable ==
    /\ \A c \in WireCallers :
          IF wire.waiting[c] = <<>> THEN TRUE ELSE ~Val(wire.waiting[c]).bound
    /\ \E m \in wire.inflight :
          /\ wire' = [wire EXCEPT !.inflight = @ \ {m}]
          /\ last' = [op |-> "lost", caller |-> "refresh", requested |-> m.for,
                      reply_for |-> None]
    /\ CoordinatorUntouched

InitWire ==
    /\ Constructed
    /\ last = [op |-> "init", caller |-> "refresh", requested |-> "alarm",
               reply_for |-> None]

NextWire ==
    \/ \E c \in WireCallers : WireSendRequest(c)
    \/ \E c \in WireCallers : WireReceive(c)
    \/ \E c \in WireCallers : WireTimeout(c)
    \/ \E c \in WireCallers : WireReclaim(c)
    \/ WireUnreachable

SpecWire == InitWire /\ [][NextWire]_vars

(***************************************************************************)
(* EntityCache and StateMachine called from two threads.  The refresh      *)
(* cycle stores readings and updates the state machine; another thread     *)
(* asks for the latest reading, the statistics and the state.  Every       *)
(* method body is "with self._lock:" around its statements; here a call    *)
(* goes statement by statement, and a thread takes a step whenever the     *)
(* lock lets it.  threads.call[t] is the call thread t has running:        *)
(* [op, in, at, before, held, result], at being the statement it is at,    *)
(* before the object as it was when the thread got the lock, held the      *)
(* local variables.                                                        *)
(***************************************************************************)
MaxThreadCalls == 3

Threads == {"cycle", "query"}

CacheOps == {"add_reading", "get_latest_reading", "get_cache_stats"}

\* the calls a thread makes, with their arguments
ThreadCalls(t, timestamp) ==
    IF t = "cycle"
    THEN {<<"add_reading", <<key, value, ts>>>> :
             key \in {<<"water", "alarm">>}, value \in CacheValues, ts \in 1..2}
         \cup {<<"update_alarm_state", <<active, timestamp>>>> : active \in BOOLEAN}
         \cup {<<"update_valve_state", <<status, timestamp>>>> : status \in {2, 3}}
    ELSE {<<"get_latest_reading", <<<<"water", "alarm">>>>>>,
          <<"get_cache_stats", <<>>>>,
          <<"get_alarm_state", <<>>>>,
          <<"get_valve_state", <<>>>>,
          <<"should_force_valve_sync", <<>>>>}

\* return {entity: len(readings) for entity, readings in self._cache.items()}
get_cache_stats(c) == [k \in DOMAIN c |-> Len(c[k])]

\* variant: a lock that lets every thread in
Available_NoExclusion(owner, t) == TRUE

\* threading.RLock: free, or held by the calling thread itself
Available(owner, t) == owner = None \/ owner = Some(t)

\* the first statement inside "with self._lock:" of each method
FirstStatement(op) ==
    CASE op = "add_reading" -> "create"
      [] op = "get_latest_reading" -> "test"
      [] op = "get_cache_stats" -> "read"
      [] op = "update_alarm_state" -> "test"
      [] op = "update_valve_state" -> "test"
      [] op = "get_alarm_state" -> "read"
      [] op = "get_valve_state" -> "read"
      [] op = "should_force_valve_sync" -> "read_alarm"

\* the state the valve status maps to in update_valve_state
ValveStateOf(valve_status) ==
    IF valve_status = 3 THEN "open"
    ELSE IF valve_status = 2 THEN "closed"
    ELSE IF valve_status \in {4, 1087} THEN "disconnected"
    ELSE "unknown"

\* one statement of an EntityCache method: <<cache after it, call after it>>
CacheStatement(c, limit, call) ==
    LET key == call.in[1]
    IN CASE call.op = "add_reading" /\ call.at = "create" ->
              <<IF key \in DOMAIN c THEN c
                ELSE [k \in DOMAIN c \cup {key} |-> IF k = key THEN <<>> ELSE c[k]],
                [call EXCEPT !.at = "store"]>>
         [] call.op = "add_reading" /\ call.at = "store" ->
              <<[c EXCEPT ![key] = PutEntry(@, call.in[2], call.in[3])],
                [call EXCEPT !.at = "evict"]>>
         [] call.op = "add_reading" /\ call.at = "evict" ->
              IF Len(c[key]) > limit
              THEN <<[c EXCEPT ![key] = Tail(@)], call>>
              ELSE <<c, [call EXCEPT !.at = "return"]>>
         [] call.op = "get_latest_reading" /\ call.at = "test" ->
              IF key \notin DOMAIN c \/ c[key] = <<>>
              THEN <<c, [call EXCEPT !.at = "return", !.result = <<None, None>>]>>
              ELSE <<c, [call EXCEPT !.at = "pop"]>>
         [] call.op = "get_latest_reading" /\ call.at = "pop" ->
              IF c[key] = <<>>
              THEN <<c, [call EXCEPT !.at = "return", !.result = <<"KeyError">>]>>
              ELSE <<[c EXCEPT ![key] = SubSeq(@, 1, Len(@) - 1)],
                     [call EXCEPT !.at = "reinsert", !.held = <<c[key][Len(c[key])]>>]>>
         [] call.op = "get_latest_reading" /\ call.at = "reinsert" ->
              <<[c EXCEPT ![key] = PutEntry(@, call.held[1].value, call.held[1].ts)],
                [call EXCEPT !.at = "return",
                             !.result = <<call.held[1].value, Some(call.held[1].ts)>>]>>
         [] call.op = "get_cache_stats" /\ call.at = "read" ->
              <<c, [call EXCEPT !.at = "return", !.result = <<get_cache_stats(c)>>]>>

\* one statement of a StateMachine method: <<state machine after it, call
\* after it>>
StateStatement(sm, call) ==
    CASE call.op = "update_alarm_state" /\ call.at = "test" ->
           LET new_state == IF call.in[1] THEN "active" ELSE "normal"
           IN IF new_state # sm.alarm_state
              THEN <<sm, [call EXCEPT !.at = "set_state", !.held = <<new_state>>]>>
              ELSE <<sm, [call EXCEPT !.at = "return", !.result = <<FALSE>>]>>
      [] call.op = "update_alarm_state" /\ call.at = "set_state" ->
           <<[sm EXCEPT !.alarm_state = call.held[1]], [call EXCEPT !.at = "set_time"]>>
      [] call.op = "update_alarm_state" /\ call.at = "set_time" ->
           <<[sm EXCEPT !.last_alarm_timestamp = Some(call.in[2])],
             [call EXCEPT !.at = "return", !.result = <<TRUE>>]>>
      [] call.op = "update_valve_state" /\ call.at = "test" ->
           LET new_state == ValveStateOf(call.in[1])
           IN IF new_state # sm.valve_state
              THEN <<sm, [call EXCEPT !.at = "set_state", !.held = <<new_state>>]>>
              ELSE <<sm, [call EXCEPT !.at = "return", !.result = <<FALSE>>]>>
      [] call.op = "update_valve_state" /\ call.at = "set_state" ->
           <<[sm EXCEPT !.valve_state = call.held[1]], [call EXCEPT !.at = "set_time"]>>
      [] call.op = "update_valve_state" /\ call.at = "set_time" ->
           <<[sm EXCEPT !.last_valve_change_timestamp = Some(call.in[2])],
             [call EXCEPT !.at = "return", !.result = <<TRUE>>]>>
      [] call.op = "get_alarm_state" /\ call.at = "read" ->
           <<sm, [call EXCEPT !.at = "return", !.result = <<sm.alarm_state>>]>>
      [] call.op = "get_valve_state" /\ call.at = "read" ->
           <<sm, [call EXCEPT !.at = "return", !.result = <<sm.valve_state>>]>>
      [] call.op = "should_force_valve_sync" /\ call.at = "read_alarm" ->
           IF sm.alarm_state = "normal"
           THEN <<sm, [call EXCEPT !.at = "read_valve"]>>
           ELSE <<sm, [call EXCEPT !.at = "return", !.result = <<FALSE>>]>>
      [] call.op = "should_force_valve_sync" /\ call.at = "read_valve" ->
           <<sm, [call EXCEPT !.at = "return",
                              !.result = <<sm.valve_state \in {"unknown", "disconnected"}>>]>>

ThreadsUntouched ==
    UNCHANGED <<max_entries, data, scan_interval, fast_poll_interval,
                update_interval, alarm_active, last_wireless_data,
                previous_connected_valves, notified_disconnected_valves,
                last_update_seconds, poll_wireless, last_wireless_poll,
                update_count, notifications_enabled, active_alarms, options,
                wireless_poll_interval, now, wireless_discovery_complete, hub,
                wire, discovered_wireless_sensors, arrivals>>

\* a thread calls a method and comes to its "with self._lock:"
ThreadCall(t) ==
    /\ threads.call[t] = <<>>
    /\ threads.calls < MaxThreadCalls
    /\ \E c \in ThreadCalls(t, threads.calls + 1) :
          threads' = [threads EXCEPT
                         !.calls = @ + 1,
                         !.call[t] = <<[op |-> c[1], in |-> c[2], at |-> "lock",
                                        before |-> <<>>, held |-> <<>>,
                                        result |-> <<>>]>>]
    /\ UNCHANGED <<cache, state_machine, last>>
    /\ ThreadsUntouched

\* with self._lock: the thread gets the lock of the object it calls
ThreadAcquire(t) ==
    /\ threads.call[t] # <<>>
    /\ LET call == Val(threads.call[t])
       IN /\ call.at = "lock"
          /\ IF call.op \in CacheOps
             THEN /\ Available(threads.cache_lock, t)
                  /\ threads' = [threads EXCEPT
                                    !.cache_lock = Some(t),
                                    !.call[t] = <<[call EXCEPT
                                                      !.at = FirstStatement(call.op),
                                                      !.before = <<cache>>]>>]
             ELSE /\ Available(threads.state_lock, t)
                  /\ threads' = [threads EXCEPT
                                    !.state_lock = Some(t),
                                    !.call[t] = <<[call EXCEPT
                                                      !.at = FirstStatement(call.op),
                                                      !.before = <<state_machine>>]>>]
    /\ UNCHANGED <<cache, state_machine, last>>
    /\ ThreadsUntouched

\* the thread executes the statement it is at
ThreadStatement(t) ==
    /\ threads.call[t] # <<>>
    /\ LET call == Val(threads.call[t])
       IN /\ call.at \notin {"lock", "return"}
          /\ IF call.op \in CacheOps
             THEN LET s == CacheStatement(cache, max_entries, call)
                  IN /\ cache' = s[1]
                     /\ threads' = [threads EXCEPT !.call[t] = <<s[2]>>]
                     /\ UNCHANGED state_machine
             ELSE LET s == StateStatement(state_machine, call)
                  IN /\ state_machine' = s[1]
                     /\ threads' = [threads EXCEPT !.call[t] = <<s[2]>>]
                     /\ UNCHANGED cache
    /\ UNCHANGED last
    /\ ThreadsUntouched

\* the with block is left, which releases the lock, and the method returns
ThreadReturn(t) ==
    /\ threads.call[t] # <<>>
    /\ LET call == Val(threads.call[t])
       IN /\ call.at = "return"
          /\ threads' = IF call.op \in CacheOps
                        THEN [threads EXCEPT !.cache_lock = None, !.call[t] = <<>>]
                        ELSE [threads EXCEPT !.state_lock = None, !.call[t] = <<>>]
          /\ last' = [op |-> call.op, thread |-> t, in |-> call.in,
                      result |-> call.result]
    /\ UNCHANGED <<cache, state_machine>>
    /\ ThreadsUntouched

InitThreads ==
    /\ hub = NewHub
    /\ wire = NewWire
    /\ discovered_wireless_sensors = None
    /\ threads = NoThreads
    /\ wireless_discovery_complete = FALSE
    /\ now = 0
    /\ cache = EmptyDict
    /\ max_entries \in 0..MaxLimit
    /\ state_machine = NewStateMachine
    /\ arrivals = <<>>
    /\ data = None
    /\ options = DefaultOptions
    /\ scan_interval = options.scan_interval * 1000
    /\ fast_poll_interval = options.fast_poll_interval * 1000
    /\ update_interval = scan_interval
    /\ alarm_active = FALSE
    /\ last_wireless_data = EmptyDict
    /\ previous_connected_valves = {}
    /\ notified_disconnected_valves = {}
    /\ last_update_seconds = None
    /\ poll_wireless = options.poll_wireless
    /\ wireless_poll_interval = options.wireless_poll_interval * 1000
    /\ last_wireless_poll = None
    /\ update_count = 0
    /\ notifications_enabled = FALSE
    /\ active_alarms = EmptyDict
    /\ last = [op |-> "init", thread |-> "cycle", in |-> <<>>, result |-> <<>>]

NextThreads ==
    \/ \E t \in Threads : ThreadCall(t)
    \/ \E t \in Threads : ThreadAcquire(t)
    \/ \E t \in Threads : ThreadStatement(t)
    \/ \E t \in Threads : ThreadReturn(t)

SpecThreads == InitThreads /\ [][NextThreads]_vars

\* the object a method leaves behind and what it returns when nothing else
\* runs between its first and its last statement
AloneState(call) ==
    LET b == call.before[1]
    IN CASE call.op = "add_reading" ->
              add_reading(b, max_entries, call.in[1], call.in[2], call.in[3])
         [] call.op = "get_latest_reading" -> AfterLatestReading(b, call.in[1])
         [] call.op = "update_alarm_state" ->
              update_alarm_state(b, call.in[1], call.in[2])[1]
         [] call.op = "update_valve_state" ->
              update_valve_state(b, Some(call.in[1]), call.in[2])[1]
         [] OTHER -> b

AloneResult(call) ==
    LET b == call.before[1]
    IN CASE call.op = "add_reading" -> <<>>
         [] call.op = "get_latest_reading" -> get_latest_reading(b, call.in[1])
         [] call.op = "get_cache_stats" -> <<get_cache_stats(b)>>
         [] call.op = "update_alarm_state" ->
              <<update_alarm_state(b, call.in[1], call.in[2])[2]>>
         [] call.op = "update_valve_state" ->
              <<update_valve_state(b, Some(call.in[1]), call.in[2])[2]>>
         [] call.op = "get_alarm_state" -> <<b.alarm_state>>
         [] call.op = "get_valve_state" -> <<b.valve_state>>
         [] call.op = "should_force_valve_sync" -> <<should_force_valve_sync(b)>>

(***************************************************************************)
(* Properties                                                              *)
(***************************************************************************)
\* a step that is one refresh cycle
CycleStep == update_count' = update_count + 1 /\ last'.op = "cycle"

\* the remap as the valve-count quirk states it
QuirkNumValves(raw) ==
    CASE raw = 2 -> 1
      [] raw = 3 -> 2
      [] raw = 319 -> 0
      [] OTHER -> raw

\* C1: after a cycle that returns a fresh snapshot, the snapshot's numValves
\* is the quirk remap, applied once, of the raw count the hub reported in
\* that cycle (1 for 2, 2 for 3, 0 for 319, the raw value otherwise).
C1_RemapAppliedOnce ==
    (last.op = "cycle" /\ last.result = "ok" /\ last.in.r.num_valves # None)
        => Val(data).valve.num_valves = Some(QuirkNumValves(Val(last.in.r.num_valves)))

\* the five alarm conditions, read off a snapshot
ReportsDisconnected(status) == status # None /\ Val(status) \in {4, 1087}

AlarmConditions(d) ==
    \/ (d.water.alarm # None /\ Val(d.water.alarm) >= 10)
    \/ (d.water.leak1 # None /\ Val(d.water.leak1) >= 10)
    \/ \E k \in DOMAIN d.wireless \cap {"leak1", "leak2"} :
          d.wireless[k] # None /\ Val(d.wireless[k]) >= 10
    \/ d.valve.num_valves = Some(319)
    \/ ReportsDisconnected(d.valve.valve_status1)
    \/ ReportsDisconnected(d.valve.valve_status2)
    \/ ("battery_voltage" \in DOMAIN d.wireless
           /\ d.wireless["battery_voltage"] # None
           /\ Val(d.wireless["battery_voltage"]) < 25)

\* C2: the alarm evaluation of the snapshot a cycle returns is Active if and
\* only if one of the five alarm conditions holds of that snapshot.
C2_AlarmIffConditions ==
    (last.op = "cycle" /\ last.result = "ok")
        => (alarm_active <=> AlarmConditions(Val(data)))

\* C3: a cycle in which the hub reports raw numValves = 319 evaluates the
\* alarm as Active: AlarmState is Active and the coordinator's alarm flag,
\* which selects the fast-poll base interval, is set.
C3_SystemDisconnectedIsAlarm ==
    (last.op = "cycle" /\ last.result = "ok" /\ last.in.r.num_valves = Some(319))
        => (alarm_active /\ state_machine.alarm_state = "active")

\* what the hub's replies of one cycle say about valve i (1 or 2)
ValveStatusIn(r, i) == IF i = 1 THEN r.valve_status1 ELSE r.valve_status2

ValvePresentIn(r, i) ==
    r.num_valves # None /\ QuirkNumValves(Val(r.num_valves)) >= i

ValveConnectedIn(r, i) ==
    /\ ValvePresentIn(r, i)
    /\ ValveStatusIn(r, i) # None
    /\ ~ReportsDisconnected(ValveStatusIn(r, i))

ValveDisconnectedIn(r, i) ==
    ValvePresentIn(r, i) /\ ReportsDisconnected(ValveStatusIn(r, i))

NotificationsFor(sent, alarm_type) ==
    Cardinality({j \in DOMAIN sent : sent[j] = alarm_type})

\* C4: with notifications enabled, over two successive cycles that each
\* return a fresh snapshot: if valve i (1 or 2) is connected in the first and
\* reports a disconnected code in the second, the second sends exactly one
\* valve notification; if it is disconnected in both and no valve
\* disconnects in the second, the second sends none.
C4_DisconnectNotifiedOnce ==
    [][(/\ CycleStep
        /\ last.op = "cycle"
        /\ last.result = "ok"
        /\ last'.result = "ok"
        /\ notifications_enabled) =>
          LET edges == {i \in {1, 2} : /\ ValveConnectedIn(last.in.r, i)
                                       /\ ValveDisconnectedIn(last'.in.r, i)}
              stays == {i \in {1, 2} : /\ ValveDisconnectedIn(last.in.r, i)
                                       /\ ValveDisconnectedIn(last'.in.r, i)}
          IN /\ edges # {} => NotificationsFor(last'.sent, "valve_alarm") = 1
             /\ (stays # {} /\ edges = {}) =>
                    NotificationsFor(last'.sent, "valve_alarm") = 0]_vars

\* C5: after every refresh cycle and every options update the poll interval
\* is at least the base interval of the current alarm state, at least 1.5
\* times the last measured cycle duration, and at least one second.
C5_IntervalFloor ==
    last.op \in {"cycle", "options"} =>
        /\ update_interval >= (IF alarm_active THEN fast_poll_interval ELSE scan_interval)
        /\ last_update_seconds # None => 2 * update_interval >= 3 * Val(last_update_seconds)
        /\ update_interval >= 1000

\* C6: a cycle in which the hub returns no data or malformed data returns
\* the previous snapshot unchanged when there is one, and fails otherwise.
C6_NoDataDegradesOrFails ==
    [][(CycleStep /\ last'.in.kind \in {"nodata", "malformed"}) =>
          IF data # None
          THEN last'.result = "degraded" /\ data' = data
          ELSE last'.result = "failed" /\ data' = None]_vars

C6_Witness ==
    /\ last.op = "cycle"
    /\ last.in.kind = "malformed"
    /\ last.result = "degraded"
    /\ data # None
    /\ update_count = 2

\* C7: a cycle in which no request is answered returns the last-known
\* snapshot unchanged when there is one, and fails when there is none.
C7_SilentHubDegradesOrFails ==
    [][(CycleStep /\ last'.in.kind = "status" /\ last'.in.r = SilentReplies) =>
          IF data # None
          THEN data' = data
          ELSE last'.result = "failed"]_vars

\* the messages that contain "timeout" or "connection" when case is ignored:
\* "Timeout" and "no connection" do, "timed out" does not
MentionsTimeoutOrConnection(message) == message \in {MsgTimeout, MsgConnection}

\* C8 as stated: whenever anything inside the cycle raises, the cycle
\* returns the previous snapshot if there is one and the message mentions
\* timeout or connection, and fails in every other case.
C8_AnyExceptionDegradesOrFails ==
    [][(CycleStep /\ last'.raised # "none") =>
          IF data # None /\ MentionsTimeoutOrConnection(last'.in.msg)
          THEN last'.result = "degraded" /\ data' = data
          ELSE last'.result = "failed"]_vars

\* C8 amended: an exception that reaches the cycle's own handler (here:
\* raised by the status fetch) makes the cycle return the previous snapshot
\* if there is one and the message mentions timeout or connection, and fail
\* in every other case; an exception raised by the forced valve re-read is
\* swallowed there and the cycle returns its fresh snapshot.
C8_HandledExceptionDegradesOrFails ==
    [][CycleStep =>
          /\ last'.raised = "fetch" =>
                IF data # None /\ MentionsTimeoutOrConnection(last'.in.msg)
                THEN last'.result = "degraded" /\ data' = data
                ELSE last'.result = "failed" /\ data' = data
          /\ last'.raised = "sync" => last'.result = "ok" /\ data' # None]_vars

C8_Witness ==
    /\ last.op = "cycle"
    /\ last.raised = "fetch"
    /\ last.in.msg = MsgTimeout
    /\ last.result = "degraded"
    /\ data # None

\* the last n elements of a sequence
LastN(seq, n) ==
    IF Len(seq) <= n THEN seq ELSE SubSeq(seq, Len(seq) - n + 1, Len(seq))

\* C9: a key never holds more than N readings, and what it holds is the
\* newest N of the readings added to it, in arrival order.
C9_NewestNInArrivalOrder ==
    \A key \in CacheKeys :
        /\ Len(get_all_readings(cache, key)) <= max_entries
        /\ get_all_readings(cache, key) = LastN(ArrivalsOf(key), max_entries)

\* the normalization of a raw valve status
NormalizedValve(valve_status) ==
    CASE valve_status = Some(3) -> "open"
      [] valve_status = Some(2) -> "closed"
      [] valve_status \in {Some(4), Some(1087)} -> "disconnected"
      [] OTHER -> "unknown"

NormalizedAlarm(is_active) == IF is_active THEN "active" ELSE "normal"

\* C10: updateAlarm and updateValve return true exactly when the normalized
\* input differs from the state held before the call, store the normalized
\* input, leave the state machine untouched when they return false, and
\* return false when the input repeats that of the previous call.
C10_ChangeDetection ==
    [][/\ last'.op = "update_alarm_state" =>
            /\ last'.result = (NormalizedAlarm(last'.in) # state_machine.alarm_state)
            /\ state_machine'.alarm_state = NormalizedAlarm(last'.in)
            /\ state_machine'.valve_state = state_machine.valve_state
            /\ ~last'.result => state_machine' = state_machine
            /\ last.alarm_in = Some(last'.in) => ~last'.result
       /\ last'.op = "update_valve_state" =>
            /\ last'.result = (NormalizedValve(last'.in) # state_machine.valve_state)
            /\ state_machine'.valve_state = NormalizedValve(last'.in)
            /\ state_machine'.alarm_state = state_machine.alarm_state
            /\ ~last'.result => state_machine' = state_machine
            /\ last.valve_in = Some(last'.in) => ~last'.result]_vars

C10_Witness ==
    /\ last.op = "update_valve_state"
    /\ last.in = Some(1087)
    /\ last.result
    /\ state_machine.valve_state = "disconnected"
    /\ last.alarm_in # None

\* the time since the last forced wireless read, at the start of the cycle
\* that the step performs
SinceLastPoll == (now + last'.in.wait) - Val(last_wireless_poll)

\* C13 as stated: in every cycle the wireless read is forced exactly when
\* the alarm is Active at the start of the cycle, or no forced read has
\* happened yet, or the wireless poll interval has elapsed since the last
\* forced read.
C13_ForcedWhenAlarmOrElapsed ==
    [][CycleStep =>
          (last'.force_wireless <=>
              \/ alarm_active
              \/ last_wireless_poll = None
              \/ SinceLastPoll >= wireless_poll_interval)]_vars

\* C13 amended: with wireless polling enabled the read is forced exactly
\* when the alarm is Active at the start of the cycle, or no forced read has
\* happened yet, or the interval has elapsed; with wireless polling disabled
\* it is never forced.  A cycle whose status fetch returns records the time
\* of the forced read, and only then.
C13_ForcedWhenEnabledAndAlarmOrElapsed ==
    [][CycleStep =>
          /\ last'.force_wireless <=>
                /\ poll_wireless
                /\ \/ alarm_active
                   \/ last_wireless_poll = None
                   \/ SinceLastPoll >= wireless_poll_interval
          /\ last'.raised # "fetch" =>
                (last'.force_wireless <=> last_wireless_poll' = Some(now'))
          /\ ~last'.force_wireless => last_wireless_poll' = last_wireless_poll]_vars

\* the second cycle, started 2 s after the first one forced a read, forces
\* again: only the Active alarm can have caused it
C13_Witness ==
    /\ last.op = "cycle"
    /\ update_count = 2
    /\ last.in.wait = WaitShort
    /\ last.force_wireless
    /\ poll_wireless
    /\ last_wireless_poll = Some(now)

C16_IntervalsClamped ==
    /\ scan_interval >= 1000 /\ scan_interval <= 300000
    /\ fast_poll_interval >= 1000 /\ fast_poll_interval <= 10000

\* C17: the cycle that follows an options update uses the stored options:
\* the clamped scan and fast-poll intervals, and the poll-wireless flag and
\* wireless poll interval in the decision to force a wireless read.
C17_CycleUsesNewOptions ==
    [][(CycleStep /\ last.op = "options") =>
          /\ scan_interval = 1000 * Max2(1, Min2(300, options.scan_interval))
          /\ fast_poll_interval = 1000 * Max2(1, Min2(10, options.fast_poll_interval))
          /\ last'.force_wireless <=>
                /\ options.poll_wireless
                /\ \/ alarm_active
                   \/ last_wireless_poll = None
                   \/ SinceLastPoll >= 1000 * options.wireless_poll_interval]_vars

\* C18: a cycle that returns a fresh snapshot and whose wireless read
\* yielded nothing returns, as the wireless section, the last-known wireless
\* data as it was before the cycle (empty when there was none).
C18_WirelessFallback ==
    [][(CycleStep /\ last'.result = "ok" /\ DOMAIN last'.in.r.wireless = {}) =>
          /\ Val(data').wireless = last_wireless_data
          /\ last_wireless_data' = last_wireless_data]_vars

C18_Witness ==
    /\ last.op = "cycle"
    /\ last.result = "ok"
    /\ DOMAIN last.in.r.wireless = {}
    /\ "battery" \in DOMAIN last_wireless_data
    /\ Val(data).wireless = last_wireless_data


\* the discovery map of the hub client, empty before the first scan
DiscoveryMap(h) == IF h.discovered = None THEN EmptyDict ELSE Val(h.discovered)

\* C11: a sensor key that the discovery map holds with data type analog is
\* never held with data type status afterwards: no step, be it the setup scan
\* or a rediscovery scan inside a forced read, turns an analog entry into a
\* status entry.
C11_AnalogNeverReplacedByStatus ==
    [][\A k \in DOMAIN DiscoveryMap(hub) :
         (DiscoveryMap(hub)[k].data_type = "analog"
          /\ k \in DOMAIN DiscoveryMap(hub'))
         => DiscoveryMap(hub')[k].data_type # "status"]_vars

\* C12: after setup the discovery map only grows or has entries replaced: a
\* key that is in the map is still in the map after every step.
C12_DiscoveryMapKeepsKeys ==
    [][wireless_discovery_complete
       => DOMAIN DiscoveryMap(hub) \subseteq DOMAIN DiscoveryMap(hub')]_vars


\* the attempts a request costs at most: those _send_request makes when every
\* attempt times out
WorstAttempts(request) ==
    _send_request([n \in 1..(request.retries + 1) |-> "timeout"],
                  request.retries, 0).attempts

\* the attempts of a sequence of requests, an unanswered request having run
\* into the timeout retries + 1 times and an answered one at most as often
RECURSIVE TotalAttempts(_)
TotalAttempts(requests) ==
    IF requests = <<>> THEN 0
    ELSE WorstAttempts(Head(requests)) + TotalAttempts(Tail(requests))

\* water, valve, device info, discovered sensors, wireless objects, fallback
\* scan, rediscovery (two passes)
MaxRequestsPerCycle == 3 + 4 + 3 + 5 + 5 + 5 + (5 + 5)

\* the discovered sensors are read with retries = 3, all else with retries = 2
MaxAttemptsPerCycle == (MaxRequestsPerCycle - 5) * 3 + 5 * 4

\* C20: one get_all_status call, whatever the hub answers or fails to answer,
\* issues a bounded number of requests, each with a bounded number of
\* attempts, and returns a snapshot with its four sections.
C20_CycleWorkBounded ==
    last.op = "get_all_status"
    => /\ Len(last.requests) <= MaxRequestsPerCycle
       /\ TotalAttempts(last.requests) <= MaxAttemptsPerCycle
       /\ \A n \in 1..Len(last.requests) : last.requests[n].retries \in {2, 3}
       /\ DOMAIN last.result = {"water", "valve", "device", "wireless"}

\* a forced call that goes through every fallback down to the rediscovery
\* while no wireless object answers, and issues the maximum of requests
C20_Witness ==
    /\ last.op = "get_all_status"
    /\ last.force
    /\ last.in.env = SilentEnv
    /\ Len(last.requests) = MaxRequestsPerCycle
    /\ TotalAttempts(last.requests) = MaxAttemptsPerCycle


\* the attempts of a call that meet a response
Responses(outcomes) == {n \in DOMAIN outcomes : outcomes[n] = "response"}

\* C15: _send_request with retries = r makes at most r + 1 attempts; when some
\* attempt meets a response it returns the response of the first such attempt
\* and makes no attempt after it; it returns no response only when all r + 1
\* attempts failed, by timeout or socket error, having made all of them; and
\* it never raises.
C15_SendRequestContract ==
    last.op = "send"
    => /\ last.result.attempts <= last.retries + 1
       /\ ~last.result.raised
       /\ IF Responses(last.outcomes) # {}
          THEN /\ last.result.response # None
               /\ \A n \in Responses(last.outcomes) : Val(last.result.response) <= n
               /\ Val(last.result.response) \in Responses(last.outcomes)
               /\ last.result.attempts = Val(last.result.response)
          ELSE /\ last.result.response = None
               /\ last.result.attempts = last.retries + 1

\* a call that gets its response on the last allowed attempt, after a timeout
\* and a socket error
C15_Witness ==
    /\ last.op = "send"
    /\ last.retries = 2
    /\ last.outcomes = <<"timeout", "error", "response">>
    /\ last.result.response = Some(3)

\* a cycle has just returned a fresh snapshot
AfterSuccessfulCycle == last.op = "cycle" /\ last.result = "ok"

\* the wireless leak channels whose most recent reading is at or above 1.0;
\* _last_wireless_data holds, per channel, the value of its most recent read
LeakingChannels ==
    {k \in {"leak1", "leak2"} :
        /\ k \in DOMAIN last_wireless_data
        /\ last_wireless_data[k] # None
        /\ Val(last_wireless_data[k]) >= AlarmThreshold}

\* C24: after every successful cycle, while some wireless leak channel's most
\* recent reading is at or above 1.0 (no reading below 1.0 has been returned
\* for it since), the alarm state is active, also when the channel did not
\* answer in this cycle.
C24_WirelessLeakHoldsAlarm ==
    (AfterSuccessfulCycle /\ LeakingChannels # {})
    => state_machine.alarm_state = "active"

\* C25: after every successful cycle with notifications enabled, the alarm
\* state is active exactly when the notification manager holds an active
\* alarm other than connection_lost.
C25_AlarmStateMatchesNotified ==
    (AfterSuccessfulCycle /\ notifications_enabled)
    => (state_machine.alarm_state = "active"
        <=> DOMAIN active_alarms \ {"connection_lost"} # {})

AlarmTypes ==
    {"water_alarm", "water_leak", "wireless_leak_1", "wireless_leak_2",
     "valve_alarm", "low_battery", "connection_lost"}

AtOrAbove(reading, threshold) == reading # None /\ Val(reading) >= threshold

\* the condition of each alarm type as the notification manager reads it
\* from the cycle's snapshot d and the last-known wireless data lwd
AlarmCondition(alarm_type, d, lwd) ==
    CASE alarm_type = "water_alarm" -> AtOrAbove(Get(d.water, "alarm"), AlarmThreshold)
      [] alarm_type = "water_leak" -> AtOrAbove(Get(d.water, "leak1"), AlarmThreshold)
      [] alarm_type = "wireless_leak_1" -> AtOrAbove(Get(lwd, "leak1"), AlarmThreshold)
      [] alarm_type = "wireless_leak_2" -> AtOrAbove(Get(lwd, "leak2"), AlarmThreshold)
      [] alarm_type = "valve_alarm" ->
            Some(4) \in {Get(d.valve, "valve_status1"), Get(d.valve, "valve_status2")}
      [] alarm_type = "low_battery" ->
            /\ Get(lwd, "battery_voltage") # None
            /\ Val(Get(lwd, "battery_voltage")) < LowBatteryVoltage
      [] OTHER -> \A section \in DOMAIN d : DOMAIN d[section] = {}

C28_AlarmStateMatchesFlag ==
    last.op = "cycle" => (state_machine.alarm_state = "active" <=> alarm_active)

\* a second cycle that has cleared the alarm the first one raised
C28_Witness ==
    /\ AfterSuccessfulCycle
    /\ update_count >= 2
    /\ state_machine.last_alarm_timestamp = Some(update_count)
    /\ state_machine.alarm_state = "normal"
    /\ ~alarm_active

\* C29: at the end of every successful cycle the state machine's valve state
\* is the normalization of the valve 1 status in the snapshot the cycle
\* returned, also when the forced valve re-read ran.
C29_ValveStateMatchesSnapshot ==
    AfterSuccessfulCycle
    => state_machine.valve_state = NormalizedValve(Get(Val(data).valve, "valve_status1"))

C22_BatteryPercentage ==
    last.op = "battery" =>
        /\ last.voltage >= 330 => last.result = 100
        /\ last.voltage <= 220 => last.result = 15
        /\ (220 < last.voltage /\ last.voltage < 330) =>
              2 * Abs(110 * (last.result - 15) - 85 * (last.voltage - 220)) <= 110
        /\ last.result \in 15..100
        /\ \A lower \in BatteryVoltages :
              lower <= last.voltage => BatteryPercentage(lower) <= last.result

\* 2.75 V, halfway between the anchors, gives 58
C22_Witness ==
    /\ last.op = "battery"
    /\ last.voltage = 275
    /\ last.result = 58

\* the float at the fixed offset, bytes 18..21, of a response
FloatAtOffset(response) == Float32(Slice(response, 18, 22))

\* C21: decoding a wireless-shaped response for leak1 or leak2 whose float at
\* the fixed offset is finite gives 1.0 when that float is exactly 1.0 and
\* 0.0 for every other float; never None and never another value.
C21_LeakDecodesToZeroOrOne ==
    (/\ last.op = "parse"
     /\ last.wireless
     /\ last.sensor_key \in {"leak1", "leak2"}
     /\ ~isnan(FloatAtOffset(last.response))
     /\ ~isinf(FloatAtOffset(last.response)))
    => last.result = IF FloatAtOffset(last.response) = One THEN Some(One) ELSE Some(Zero)

\* C23: what a request returns is the hub's reply to that very request: the
\* reply a caller gets back is never the reply to a request for another
\* object, be it a late reply to an earlier request or the reply to a request
\* another caller has running on the same local port.
C23_ReplyBelongsToRequest ==
    (last.op = "return" /\ last.reply_for # None)
    => Val(last.reply_for) = last.requested

\* C35: get_latest_reading(key) returns the reading that was added last for
\* the key, by arrival, also when a timestamp is repeated or an older
\* timestamp arrives late, and leaves the readings of the key, content and
\* order, as they were.
C35_LatestIsLastAddedAndKeepsOrder ==
    [][last'.op = "get_latest_reading"
       => LET key == last'.in[1]
              added == ArrivalsOf(key)
          IN /\ last'.result = IF added = <<>>
                               THEN <<None, None>>
                               ELSE <<added[Len(added)].value, Some(added[Len(added)].ts)>>
             /\ get_all_readings(cache', key) = get_all_readings(cache, key)]_vars

\* C36: after add_reading(key, ...) the key holds at least one reading,
\* whatever maximum the cache was configured with.
C36_EvictionKeepsOneEntry ==
    last.op = "add_reading" => Len(get_all_readings(cache, last.in[1])) >= 1

\* the target _check_alarm_conditions has computed in the cycle just finished
NewTarget ==
    safe_seconds(alarm_active, scan_interval, fast_poll_interval, last_update_seconds)

\* C37: at the end of a successful cycle the poll interval is replaced by
\* the newly computed target only if the two differ by more than 0.2 s; when
\* they differ by 0.2 s or less the interval stays as it was.
C37_IntervalReappliedBeyondTolerance ==
    [][(CycleStep /\ last'.result = "ok" /\ update_interval # 0)
       => update_interval' = IF Abs(update_interval - NewTarget') > IntervalTolerance
                             THEN NewTarget'
                             ELSE update_interval]_vars

\* what the hub returned in a cycle with replies r, section by section, the
\* valve count as the coordinator interprets it
ReturnedByHub(r) == Prepared_NoFallback(get_all_status(r), EmptyDict)

\* C31: every reading a successful cycle stores in the cache with the
\* cycle's timestamp carries a value the hub returned in that cycle; values
\* carried over from the last-known wireless snapshot are not stored again
\* as new readings.
C31_OnlyFreshValuesCached ==
    [][(CycleStep /\ last'.result = "ok")
       => \A key \in DOMAIN cache' :
            \A i \in DOMAIN cache'[key] :
                cache'[key][i].ts = update_count'
                => LET section == ReturnedByHub(last'.in.r)[key[1]]
                   IN /\ key[2] \in DOMAIN section
                      /\ section[key[2]] = cache'[key][i].value]_vars

\* the cache keys of the objects a cycle reads
ReadKeys ==
    {<<"water", k>> : k \in {"alarm", "leak1", "reset_leak"}}
    \cup {<<"valve", k>> : k \in {"num_valves", "control", "valve_status1", "valve_status2"}}
    \cup {<<"wireless", k>> : k \in WirelessKeys}

\* the read of a key failed: the hub returned no value for it
ReadFailed(r, key) ==
    LET section == ReturnedByHub(r)[key[1]]
    IN key[2] \notin DOMAIN section \/ section[key[2]] = None

\* C32: a refresh cycle never stores a reading with a null value, and for a
\* key whose read failed in the cycle get_latest_reading returns after the
\* cycle what it returned before: the most recent reading of an earlier
\* cycle, or nothing.
C32_NoNullReadingStored ==
    [][(CycleStep /\ last'.result = "ok")
       => /\ \A key \in DOMAIN cache' :
                \A i \in DOMAIN cache'[key] : cache'[key][i].value # None
          /\ \A key \in ReadKeys :
                ReadFailed(last'.in.r, key)
                => get_latest_reading(cache', key) = get_latest_reading(cache, key)]_vars

\* the positions in a sequence of requests at which an object is requested
RequestsOf(requests, object_type, instance) ==
    {n \in 1..Len(requests) :
        requests[n].object_type = object_type /\ requests[n].instance = instance}

\* the instance of the status object of valve k: VALVE_OBJECTS valve_status1, valve_status2
ValveStatusInstance(k) == IF k = 1 THEN 5 ELSE 6

\* the interpreted valve count of a status, 0 when the count read failed
InterpretedCount(valve) ==
    IF valve.num_valves = None THEN 0 ELSE Val(valve.num_valves)

\* C38: read_valve_status requests the valve count once, and the status
\* object of valve k (k = 1, 2) only after it and only when the interpreted
\* count is at least k; when the count is lower or its read failed, no
\* request for valve k is sent and its status is reported as None.
C38_ValveStatusReadByCount ==
    last.op = "get_all_status"
    => LET count == InterpretedCount(last.result.valve)
           counts == RequestsOf(last.requests, 13, 3)
       IN /\ Cardinality(counts) = 1
          /\ \A k \in {1, 2} :
               LET asked == RequestsOf(last.requests, 13, ValveStatusInstance(k))
                   status == IF k = 1 THEN last.result.valve.valve_status1
                             ELSE last.result.valve.valve_status2
               IN /\ \A n \in asked : \A c \in counts : c < n
                  /\ IF count >= k
                     THEN Cardinality(asked) = 1
                     ELSE asked = {} /\ status = None

\* the hub reports that the valve system is disconnected (raw count 319)
\* and would answer both status objects: neither is requested
C38_Witness ==
    /\ last.op = "get_all_status"
    /\ last.in.r.num_valves = Some(319)
    /\ last.in.r.valve_status1 # None
    /\ last.in.r.valve_status2 # None
    /\ RequestsOf(last.requests, 13, 5) = {}
    /\ last.result.valve.valve_status1 = None

\* a scan that finds at least one sensor
Finds(env) == DOMAIN discover_wireless_sensors(env).sensors # {}

\* C39: setup discovery runs at most three scans and stops at the first
\* that finds a sensor; it always ends with discovery marked complete, also
\* when a scan raises; every later call returns the recorded map and issues
\* no scan.
C39_SetupDiscoveryBounded ==
    [][last'.op = "discover"
       => /\ wireless_discovery_complete'
          /\ IF wireless_discovery_complete
             THEN /\ last'.scans = 0
                  /\ last'.requests = <<>>
                  /\ discovered_wireless_sensors' = discovered_wireless_sensors
                  /\ discovered_wireless_sensors # None
                  /\ last'.result = Val(discovered_wireless_sensors)
             ELSE /\ last'.scans \in 1..3
                  /\ \A k \in 1..(last'.scans - 1) : ~Finds(last'.in[k])
                  /\ (~last'.raised /\ last'.scans < 3) => Finds(last'.in[last'.scans])
                  /\ discovered_wireless_sensors' = Some(last'.result)]_vars

\* a call after setup, the hub ready to answer a scan: the map that the
\* third scan of setup found is returned and nothing is requested
C39_Witness ==
    /\ last.op = "discover"
    /\ last.scans = 0
    /\ last.requests = <<>>
    /\ Finds(last.in[3])
    /\ wireless_discovery_complete
    /\ discovered_wireless_sensors # None
    /\ last.result = Val(discovered_wireless_sensors)
    /\ DOMAIN last.result # {}

\* the known 23-byte water-sensor shape
WaterSensorShape(response) ==
    /\ Len(response) = 23
    /\ Slice(response, 0, 4) = WirelessHeader
    /\ Slice(response, 4, 8) = WaterApdu
    /\ Slice(response, 16, 19) = RealTagThenClosing

\* C40: decoding a response whose error bit (byte 3, bit 1) is set gives
\* None unless the response has the 23-byte water-sensor shape; byte 3 being
\* 0x17 alone does not make a response acceptable.
C40_ErrorBitRejectsUnlessWaterShape ==
    (/\ last.op = "parse_value"
     /\ Len(last.response) >= 4
     /\ ErrorBit(last.response)
     /\ ~WaterSensorShape(last.response))
    => last.result = None

\* C33: every socket a request opens is closed before the next attempt
\* starts and before _send_request returns, whether the attempt ends with a
\* reply, a timeout, a socket error or a failed bind: a caller with no
\* request running has no socket open, and a running request has at most
\* one.
C33_SocketsClosedPerAttempt ==
    \A c \in WireCallers :
        /\ OpenSockets(wire, c) <= 1
        /\ wire.waiting[c] = <<>> => OpenSockets(wire, c) = 0

\* C34: every EntityCache and StateMachine method takes effect as one step,
\* however the statements of the refresh cycle's add_reading,
\* update_alarm_state and update_valve_state calls interleave with the
\* get_latest_reading, get_cache_stats and state queries of another thread:
\* when a call comes to its return, the object is what the method alone makes
\* of the object it found when it got the lock, and the result is what the
\* method alone returns on that object.  The calls are then serial in the
\* order they got the lock; a get_latest_reading running while add_reading
\* of the same key is called neither loses nor reorders a reading.
C34_CallsAreSerial ==
    \A t \in Threads :
        threads.call[t] # <<>> /\ Val(threads.call[t]).at = "return"
        => LET call == Val(threads.call[t])
           IN /\ call.result = AloneResult(call)
              /\ IF call.op \in CacheOps
                 THEN cache = AloneState(call)
                 ELSE state_machine = AloneState(call)

\* get_latest_reading has taken the last reading out and put it back while
\* the cycle waits for the lock with an add_reading of the same key
C34_Witness ==
    /\ threads.call["query"] # <<>>
    /\ threads.call["cycle"] # <<>>
    /\ LET q == Val(threads.call["query"])
           c == Val(threads.call["cycle"])
       IN /\ q.op = "get_latest_reading" /\ q.at = "return"
          /\ q.result # <<None, None>>
          /\ c.op = "add_reading" /\ c.at = "lock"
          /\ c.in[1] = q.in[1]

============================================================================
